---- MODULE Spec2Model ----
(***************************************************************************)
(* Model of the scrape pipeline of the instah backend:                     *)
(*   - the snapshot store      (backend/utils/mongodb.js, lines 1-294)      *)
(*   - the ScrapeQueue         (backend/utils/mongodb.js, lines 297-394)    *)
(*   - the /api/stalkers route (backend/utils/mongodb.js, lines 691-799)    *)
(*   - scrape()                (backend/scraper/parseSnapshots.js, 207-598) *)
(* Times are in seconds.  A document of the snapshots collection is a      *)
(* record; the collection is the set docs.                                 *)
(***************************************************************************)
EXTENDS Integers, Sequences, FiniteSets, TLC

\* ---------------------------------------------------------------- bounds
Users == {"alice", "bob"}
\* number of callers (requests, executions) the model has room for
MaxRequests == 3
\* number of /api/stalkers requests that arrive in the pipeline
MaxArrivals == 2
\* the clock advances in steps of Tick seconds, up to MaxNow
Tick == 3000
MaxNow == 6000
\* number of database and browser operations that fail in one run of scrape()
MaxDbFaults == 2
\* a poll of the cards takes up to MaxLateTicks poll intervals longer than
\* the interval it waits
MaxLateTicks == 1

\* ------------------------------------------------------ program constants
\* expireAfterSeconds of the TTL index on createdAt
ExpireAfterSeconds == 600
\* getRecentSnapshot(username, 60) of the /api/stalkers handler
CacheMaxAgeMinutes == 60
\* maxWaitTime and pollInterval of the polling loop of scrape(), in ms
MaxWaitTime == 60000
PollInterval == 100

VARIABLES
  now,         \* Date.now(), in seconds
  docs,        \* the snapshots collection
  nextId,      \* the next ObjectId the collection hands out
  nextRunId,   \* the next value of `${Date.now()}` read by a scrape
  processing,  \* ScrapeQueue.processing: username -> execution (0: no entry)
  waiting,     \* ScrapeQueue.waiting: username -> number of notify functions
               \*   (-1: no entry)
  faultsLeft,  \* the operations of the database and of the browser process
               \*   that may still fail
  exec,        \* the executions started by enqueue, by the request that
               \*   started them: scrape()'s locals and the promise chain
  req,         \* the /api/stalkers requests and where their handlers stand
  parse,       \* one call of a snapshot parser: its input and what it returned
  conn         \* dbClient and db of mongodb.js, and the calls of connectDB

vars ==
  <<now, docs, nextId, nextRunId, faultsLeft, processing, waiting, exec, req,
    parse, conn>>

Requests == 1..MaxRequests

\* ------------------------------------------------------------ value shapes
\* What a promise settles with, and what a handler answers: the object
\* scrape() returns (kind "ok"), the error it throws (kind "error"), or the
\* cached answer of the handler (kind "cached").
\* An error message names the failure (err) and may end with the list of the
\* elements found on the page (available).
NotListed == [listed |-> FALSE, elements |-> <<>>]

Listed(elements) == [listed |-> TRUE, elements |-> elements]

NoOutcome ==
  [kind |-> "none", runId |-> 0, snapshotId |-> 0, steps |-> <<>>,
   cards |-> <<>>, err |-> "", available |-> NotListed]

Result(runId, snapshotId, steps, cards) ==
  [kind |-> "ok", runId |-> runId, snapshotId |-> snapshotId, steps |-> steps,
   cards |-> cards, err |-> "", available |-> NotListed]

Failure(msg) == [NoOutcome EXCEPT !.kind = "error", !.err = msg]

\* new Error(`${msg} Available ...: ${elements}`)
FailureListing(msg, elements) ==
  [Failure(msg) EXCEPT !.available = Listed(elements)]

\* findOne's "no document"
NoDoc ==
  [id |-> 0, user |-> "", runId |-> 0, createdAt |-> 0, status |-> "",
   steps |-> <<>>, cards |-> <<>>, completedAt |-> -1]

\* The cards page.evaluate reads from the results page.
CardLists == {<<[username |-> "@x", image |-> "img"]>>}

\* What page.$$eval finds on the page when a wait has failed: the texts of
\* its buttons, or the descriptions of its inputs.
PageElements == {<<>>, <<"Sign in">>}

\* scrape()'s locals and the promise chain of one execution.  failedAt is
\* the stage in which the error was thrown, skipped the stages whose wait
\* gave up without an error, elapsed is Date.now() - analysisStartTime in
\* milliseconds.  onStep tells whether scrape() was given a callback, calls
\* lists the entries the callback was called with.  buttons are the buttons
\* the profile page showed and clicked the position of the one clicked.
NoExec ==
  [pc |-> "none", user |-> "", runId |-> 0, stepIndex |-> 0, snapshotId |-> 0,
   steps |-> <<>>, data |-> <<>>, inner |-> NoOutcome, chained |-> NoOutcome,
   promise |-> NoOutcome, endedAt |-> -1, failedAt |-> "", skipped |-> {},
   elapsed |-> 0, onStep |-> FALSE, calls |-> <<>>, buttons |-> <<>>,
   clicked |-> 0, browser |-> "none", throws |-> FALSE]

\* One request: wantsSSE tells whether it asked for an event stream, closed
\* whether its client went away, ended whether res.end() ran, events the
\* events written to the stream, busy the execution scrapeQueue.processing
\* held for the username when the cache lookup was sent (0: none).
\* What a parser returns in place of a record, and in place of a field.
Null == [null |-> TRUE]

\* An attribute or a node a page does not have.
Absent == [absent |-> TRUE]

\* A captured page as the parsers see it: whether it can be read (the file
\* exists, the html is not empty), the url of the first style with
\* background-image and the src of the first img, the texts of its span, div
\* and p nodes, its list items and paragraphs, the elements that carry an
\* embedded image, and the text of its body.
EmptyPage ==
  [readable |-> TRUE, styled |-> Absent, img |-> Absent, nodes |-> <<>>,
   items |-> <<>>, paragraphs |-> <<>>, elements |-> <<>>, body |-> <<>>]

\* No parser was called.
NoParse ==
  [fn |-> "none", returned |-> FALSE, input |-> EmptyPage, out |-> Null]

\* let dbClient = null; let db = null: no client (0), no handle (0), and
\* no call of connectDB yet.  A client is known by its number, a handle by
\* the number of its client.
MaxCalls == 3

Calls == 1..MaxCalls

NoCall == [pc |-> "idle", client |-> 0, ret |-> 0]

NoConn ==
  [dbClient |-> 0, db |-> 0, nextClient |-> 1, call |-> [c \in Calls |-> NoCall]]

NoReq ==
  [pc |-> "idle", user |-> "", at |-> 0, dbOk |-> FALSE, hit |-> NoDoc,
   src |-> 0, resp |-> NoOutcome, wantsSSE |-> FALSE, closed |-> FALSE,
   ended |-> FALSE, events |-> <<>>, busy |-> 0]

Init ==
  /\ now = 0
  /\ docs = {}
  /\ nextId = 1
  /\ nextRunId = 1
  /\ faultsLeft = 0
  /\ processing = [u \in Users |-> 0]
  /\ waiting = [u \in Users |-> -1]
  /\ exec = [e \in Requests |-> NoExec]
  /\ req = [r \in Requests |-> NoReq]
  /\ parse = NoParse
  /\ conn = NoConn

\* ------------------------------------------------------- the snapshot store
\* The store as an operation sees and leaves it.
Store(d, n) == [docs |-> d, nextId |-> n]

\* updateOne / findOne with the filter {instagramUsername, runId}
Match(d, user, runId) == {x \in d : x.user = user /\ x.runId = runId}

\* The document a filter with several matches acts on: the first inserted.
First(m) == CHOOSE x \in m : \A y \in m : x.id <= y.id

\* An insertOne in place of the upsert.
saveSnapshotStepInserts(st, user, runId, stepName, html, dbr, t) ==
  IF dbr = "down"
  THEN [st |-> st, snapshotId |-> 0]
  ELSE [st |-> Store(st.docs \cup
                     {[id |-> st.nextId, user |-> user, runId |-> runId,
                       createdAt |-> t, status |-> "processing",
                       steps |-> <<[name |-> stepName, html |-> html]>>,
                       cards |-> <<>>, completedAt |-> -1]},
                     st.nextId + 1),
        snapshotId |-> st.nextId]

\* An upsert with createdAt under $set in place of $setOnInsert.
saveSnapshotStepTouches(st, user, runId, stepName, html, dbr, t) ==
  LET m == Match(st.docs, user, runId)
      stepData == [name |-> stepName, html |-> html]
  IN  IF dbr = "down"
      THEN [st |-> st, snapshotId |-> 0]
      ELSE IF m = {}
      THEN [st |-> Store(st.docs \cup
                         {[id |-> st.nextId, user |-> user, runId |-> runId,
                           createdAt |-> t, status |-> "processing",
                           steps |-> <<stepData>>, cards |-> <<>>,
                           completedAt |-> -1]},
                         st.nextId + 1),
            snapshotId |-> st.nextId]
      ELSE LET d == First(m)
           IN  [st |-> Store((st.docs \ {d}) \cup
                             {[d EXCEPT !.steps = Append(@, stepData),
                                        !.createdAt = t]},
                             st.nextId),
                snapshotId |-> IF dbr = "lost" THEN 0 ELSE d.id]

\* saveSnapshotStep(instagramUsername, runId, stepName, html).  dbr is what
\* the database does during the call:
\*   "down"  connectDB returns null, or updateOne throws: nothing is written,
\*           null is returned (snapshotId 0)
\*   "ok"    the upsert is applied and the document's id is returned
\*   "lost"  updateOne is applied to an existing document, then the findOne
\*           that fetches its id throws: the catch returns null
saveSnapshotStep(st, user, runId, stepName, html, dbr, t) ==
  LET m == Match(st.docs, user, runId)
      stepData == [name |-> stepName, html |-> html]
  IN  IF dbr = "down"
      THEN [st |-> st, snapshotId |-> 0]
      ELSE IF m = {}
      THEN [st |-> Store(st.docs \cup
                         {[id |-> st.nextId, user |-> user, runId |-> runId,
                           createdAt |-> t, status |-> "processing",
                           steps |-> <<stepData>>, cards |-> <<>>,
                           completedAt |-> -1]},
                         st.nextId + 1),
            snapshotId |-> st.nextId]
      ELSE LET d == First(m)
           IN  [st |-> Store((st.docs \ {d}) \cup
                             {[d EXCEPT !.steps = Append(@, stepData)]},
                             st.nextId),
                snapshotId |-> IF dbr = "lost" THEN 0 ELSE d.id]

\* A saveSnapshotResult that also $sets the steps it was passed, which hold
\* only the steps captureStep pushed.
saveSnapshotResultSetsSteps(st, user, runId, cards, dbOk, t) ==
  LET m == Match(st.docs, user, runId)
  IN  IF ~dbOk \/ m = {}
      THEN st
      ELSE LET d == First(m)
           IN  Store((st.docs \ {d}) \cup
                     {[d EXCEPT !.cards = cards, !.status = "completed",
                                !.completedAt = t, !.steps = <<>>]},
                     st.nextId)

\* saveSnapshotResult(instagramUsername, runId, cards, steps): updateOne
\* without upsert; dbOk = FALSE is the unreachable database.
saveSnapshotResult(st, user, runId, cards, dbOk, t) ==
  LET m == Match(st.docs, user, runId)
  IN  IF ~dbOk \/ m = {}
      THEN st
      ELSE LET d == First(m)
           IN  Store((st.docs \ {d}) \cup
                     {[d EXCEPT !.cards = cards, !.status = "completed",
                                !.completedAt = t]},
                     st.nextId)

\* getSnapshotStep(snapshotId, stepName): the html of the first step of that
\* name, or null ("" here; a captured html is a positive number).
NoHtml == 0

FindStep(steps, stepName) ==
  LET idx == {i \in 1..Len(steps) : steps[i].name = stepName}
  IN  IF idx = {} THEN NoHtml
      ELSE steps[CHOOSE i \in idx : \A j \in idx : i <= j].html

\* A read that returns the first step of the snapshot whatever its name.
getSnapshotStepFirst(d, snapshotId, stepName, dbOk) ==
  LET m == {x \in d : x.id = snapshotId}
  IN  IF ~dbOk \/ m = {} THEN NoHtml
      ELSE IF (CHOOSE x \in m : TRUE).steps = <<>> THEN NoHtml
      ELSE (CHOOSE x \in m : TRUE).steps[1].html

getSnapshotStep(d, snapshotId, stepName, dbOk) ==
  LET m == {x \in d : x.id = snapshotId}
  IN  IF ~dbOk \/ m = {} THEN NoHtml
      ELSE FindStep((CHOOSE x \in m : TRUE).steps, stepName)

\* getSnapshotByRunId(instagramUsername, runId)
getSnapshotByRunId(d, user, runId, dbOk) ==
  LET m == {x \in Match(d, user, runId) : x.status = "completed"}
  IN  IF ~dbOk \/ m = {} THEN NoDoc ELSE First(m)

\* sort {createdAt: -1}: documents created in the same second are ordered by
\* insertion (their createdAt differ in the milliseconds).
Newer(x, y) ==
  \/ x.createdAt > y.createdAt
  \/ x.createdAt = y.createdAt /\ x.id >= y.id

\* A query without the status filter.
getRecentSnapshotAnyStatus(d, user, maxAgeMinutes, dbOk, t) ==
  LET cutoffTime == t - maxAgeMinutes * 60
      m == {x \in d : x.user = user /\ x.createdAt >= cutoffTime}
  IN  IF ~dbOk \/ m = {} THEN NoDoc
      ELSE CHOOSE x \in m : \A y \in m : Newer(x, y)

\* getRecentSnapshot(instagramUsername, maxAgeMinutes) at time t
getRecentSnapshot(d, user, maxAgeMinutes, dbOk, t) ==
  LET cutoffTime == t - maxAgeMinutes * 60
      m == {x \in d : /\ x.user = user
                      /\ x.createdAt >= cutoffTime
                      /\ x.status = "completed"}
  IN  IF ~dbOk \/ m = {} THEN NoDoc
      ELSE CHOOSE x \in m : \A y \in m : Newer(x, y)

\* The TTL index: a document is due for deletion once expireAfterSeconds
\* have passed since its createdAt.
Expired(x, t) == x.createdAt + ExpireAfterSeconds <= t

\* ------------------------------------------------------------------ scrape
\* What the database does during one saveSnapshotStep.
DbResults == {"ok", "down", "lost"}

\* A captureStep that pushes the entry and calls nothing.
captureStepSilent(st, ex, name, dbr, t) ==
  LET idx == ex.stepIndex + 1
      r == saveSnapshotStep(st, ex.user, ex.runId, name, idx, dbr, t)
      ex1 == [ex EXCEPT !.stepIndex = idx]
      entry == [name |-> name,
                htmlPath |-> [snapshotId |-> r.snapshotId, name |-> name]]
  IN  IF r.snapshotId = 0
      THEN [st |-> r.st, ex |-> ex1]
      ELSE [st |-> r.st,
            ex |-> [ex1 EXCEPT
                      !.snapshotId = IF @ = 0 THEN r.snapshotId ELSE @,
                      !.steps = Append(@, entry)]]

\* A captureStep that calls onStep before it pushes the entry: a throw of
\* the callback goes to the catch and the entry is not pushed.
captureStepCallsFirst(st, ex, name, dbr, t) ==
  LET idx == ex.stepIndex + 1
      r == saveSnapshotStep(st, ex.user, ex.runId, name, idx, dbr, t)
      ex1 == [ex EXCEPT !.stepIndex = idx]
      entry == [name |-> name,
                htmlPath |-> [snapshotId |-> r.snapshotId, name |-> name]]
  IN  IF r.snapshotId = 0
      THEN [st |-> r.st, ex |-> ex1]
      ELSE [st |-> r.st,
            ex |-> [ex1 EXCEPT
                      !.snapshotId = IF @ = 0 THEN r.snapshotId ELSE @,
                      !.steps = IF ex.onStep /\ ex.throws THEN @
                                ELSE Append(@, entry),
                      !.calls = IF ex.onStep THEN Append(@, entry) ELSE @]]

\* captureStep(name): page.content(), saveSnapshotStep, and, when a
\* snapshotId came back, the entry pushed on steps.  The html captured is
\* numbered by stepIndex.  A throw of page.content() leaves the same state as
\* dbr = "down": nothing stored, nothing pushed.  The entry pushed is handed
\* to onStep when there is one; what onStep throws is caught by the catch of
\* captureStep, after the push.
captureStep(st, ex, name, dbr, t) ==
  LET idx == ex.stepIndex + 1
      r == saveSnapshotStep(st, ex.user, ex.runId, name, idx, dbr, t)
      ex1 == [ex EXCEPT !.stepIndex = idx]
      entry == [name |-> name,
                htmlPath |-> [snapshotId |-> r.snapshotId, name |-> name]]
  IN  IF r.snapshotId = 0
      THEN [st |-> r.st, ex |-> ex1]
      ELSE [st |-> r.st,
            ex |-> [ex1 EXCEPT
                      !.snapshotId = IF @ = 0 THEN r.snapshotId ELSE @,
                      !.steps = Append(@, entry),
                      !.calls = IF ex.onStep THEN Append(@, entry) ELSE @]]

\* The catch of scrape(): screenshot, browser.close(), throw error.  The
\* promise scrape() returned rejects with the error.
Throw(ex, msg, t) ==
  [ex EXCEPT !.pc = "settled", !.inner = Failure(msg), !.endedAt = t,
             !.failedAt = ex.pc, !.browser = "closed"]

\* The same with an error whose message lists the elements of the page.
ThrowListing(ex, msg, elements, t) ==
  [Throw(ex, msg, t) EXCEPT !.inner = FailureListing(msg, elements)]

\* A wait that rethrows in place of logging the warning.
SkipThrows(ex, pc) == Throw(ex, "Could not capture view", now)

\* A soft wait gave up: the warning is logged and scrape() goes on at pc.
Skip(ex, pc) == [ex EXCEPT !.pc = pc, !.skipped = @ \cup {ex.pc}]

Running(e) == exec[e].pc \notin {"none", "settled", "notified", "final"}

\* The environment's choice for one database operation, within the budget of
\* failing operations; "lost" needs a document the update applies to.
Allowed(e, dbr) ==
  /\ dbr # "ok" => faultsLeft > 0
  /\ dbr = "lost" => Match(docs, exec[e].user, exec[e].runId) # {}

Count(dbr) == IF dbr = "ok" THEN faultsLeft ELSE faultsLeft - 1

\* send(event, data) of the SSE handler: res.write of one event on the
\* response of a request.  Nothing reaches a response that has ended, and
\* what res.write throws is caught.
send(rq, event, data) ==
  IF rq.ended THEN rq
  ELSE [rq EXCEPT !.events = Append(@, [event |-> event, data |-> data])]

\* The callback the SSE handler gives to scrape(): send("snapshot", step).
onStep(rq, step) == send(rq, "snapshot", step)

\* A scrape that hands the entry to the callback of every SSE request that
\* holds its promise.
PutToAll(e, st, ex) ==
  /\ docs' = st.docs
  /\ nextId' = st.nextId
  /\ exec' = [exec EXCEPT ![e] = ex]
  /\ req' = IF Len(ex.steps) > Len(exec[e].steps)
            THEN [r \in Requests |->
                    IF req[r].src = e /\ req[r].wantsSSE
                    THEN onStep(req[r], ex.steps[Len(ex.steps)])
                    ELSE req[r]]
            ELSE req

\* Set the store and one execution; the entry a captureStep handed to the
\* callback is written to the response of the request that started e.
Put(e, st, ex) ==
  /\ docs' = st.docs
  /\ nextId' = st.nextId
  /\ exec' = [exec EXCEPT ![e] = ex]
  /\ req' = IF Len(ex.calls) > Len(exec[e].calls) /\ ~ex.throws
            THEN [req EXCEPT ![e] = onStep(@, ex.calls[Len(ex.calls)])]
            ELSE req

\* A stage that captures nothing: only the execution changes.
Move(e, ex) ==
  /\ exec' = [exec EXCEPT ![e] = ex]
  /\ UNCHANGED <<docs, nextId, faultsLeft, req>>

\* An operation of the browser itself (launch, navigation, evaluate, close)
\* throws: one of the failing operations of the run.
Crash(e, ex, msg) ==
  /\ faultsLeft > 0
  /\ faultsLeft' = faultsLeft - 1
  /\ exec' = [exec EXCEPT ![e] = Throw(ex, msg, now)]
  /\ UNCHANGED req

\* A captureStep whose failure is rethrown.
CaptureThrows(e, name, pc) ==
  \E dbr \in DbResults :
    /\ Allowed(e, dbr)
    /\ faultsLeft' = Count(dbr)
    /\ LET c == captureStep(Store(docs, nextId), exec[e], name, dbr, now)
       IN  Put(e, c.st, IF dbr = "ok" THEN [c.ex EXCEPT !.pc = pc]
                        ELSE Throw(c.ex, "Failed to capture snapshot", now))

\* captureStep(name) by execution e, which goes on at pc
Capture(e, name, pc) ==
  \E dbr \in DbResults :
    /\ Allowed(e, dbr)
    /\ faultsLeft' = Count(dbr)
    /\ LET c == captureStep(Store(docs, nextId), exec[e], name, dbr, now)
       IN  Put(e, c.st, [c.ex EXCEPT !.pc = pc])

\* A throw before the try of scrape(): the promise rejects and the catch
\* does not run.  launched tells whether launchBrowser() had returned, that
\* is, whether it was browser.newPage() that threw.
Reject(ex, msg, launched, t) ==
  [ex EXCEPT !.pc = "settled", !.inner = Failure(msg), !.endedAt = t,
             !.failedAt = ex.pc,
             !.browser = IF launched THEN "open" ELSE "none"]

\* launchBrowser(), browser.newPage(), runId = `${Date.now()}`.  A throw
\* here is outside the try: the promise rejects.
ScrapeLaunch(e) ==
  /\ exec[e].pc = "launch"
  /\ \/ /\ exec' = [exec EXCEPT ![e].pc = "goto", ![e].runId = nextRunId,
                                ![e].browser = "open"]
        /\ nextRunId' = nextRunId + 1
        /\ UNCHANGED <<faultsLeft, req>>
     \/ /\ faultsLeft > 0
        /\ faultsLeft' = faultsLeft - 1
        /\ \E launched \in BOOLEAN :
             exec' = [exec EXCEPT ![e] = Reject(@, "launch", launched, now)]
        /\ UNCHANGED <<nextRunId, req>>
  /\ UNCHANGED <<now, docs, nextId, processing, waiting, parse, conn>>

\* Step 1: page.goto, captureStep("landing")
StageLanding(e) ==
  /\ exec[e].pc = "goto"
  /\ \/ Capture(e, "landing", "reveal")
     \/ Crash(e, exec[e], "goto") /\ UNCHANGED <<docs, nextId>>
  /\ UNCHANGED <<now, nextRunId, processing, waiting, parse, conn>>

\* Step 2: wait for the "Reveal Stalkers" button and click it; without it
\* the error lists the buttons of the page
StageReveal(e) ==
  /\ exec[e].pc = "reveal"
  /\ \/ Move(e, [exec[e] EXCEPT !.pc = "username"])
     \/ \E buttons \in PageElements :
          Move(e, ThrowListing(exec[e], "Could not find Reveal Stalkers button",
                               buttons, now))
  /\ UNCHANGED <<now, nextRunId, processing, waiting, parse, conn>>

\* Step 3: wait for the input, fill it, captureStep("username-entry");
\* without it the error lists the inputs of the page
StageUsername(e) ==
  /\ exec[e].pc = "username"
  /\ \/ Capture(e, "username-entry", "continue")
     \/ \E inputs \in PageElements :
          Move(e, ThrowListing(exec[e], "Could not find username input",
                               inputs, now))
  /\ UNCHANGED <<now, nextRunId, processing, waiting, parse, conn>>

\* A Continue step that logs a warning and goes on when the button is
\* missing.
StageContinueSoft(e) ==
  /\ exec[e].pc = "continue"
  /\ \/ Move(e, [exec[e] EXCEPT !.pc = "analyzing"])
     \/ Move(e, Skip(exec[e], "analyzing"))
  /\ UNCHANGED <<now, nextRunId, processing, waiting, parse, conn>>

\* Step 4: wait for the Continue button and click it
StageContinue(e) ==
  /\ exec[e].pc = "continue"
  /\ \/ Move(e, [exec[e] EXCEPT !.pc = "analyzing"])
     \/ Move(e, Throw(exec[e], "Could not find Continue button", now))
  /\ UNCHANGED <<now, nextRunId, processing, waiting, parse, conn>>

\* wait for the analyzing view, captureStep("analyzing") when it shows
StageAnalyzing(e) ==
  /\ exec[e].pc = "analyzing"
  /\ \/ Capture(e, "analyzing", "profile")
     \/ Move(e, Skip(exec[e], "profile"))
  /\ UNCHANGED <<now, nextRunId, processing, waiting, parse, conn>>

\* A stage that captures "profile-confirm" with the handle and once more
\* without it.
StageProfileTwice(e) ==
  /\ exec[e].pc = "profile"
  /\ LET c1 == captureStep(Store(docs, nextId), exec[e], "profile-confirm",
                           "ok", now)
         c2 == captureStep(c1.st, c1.ex, "profile-confirm", "ok", now)
     IN  Put(e, c2.st, [c2.ex EXCEPT !.pc = "confirm"])
  /\ UNCHANGED <<now, nextRunId, faultsLeft, processing, waiting, parse, conn>>

\* Step 5: captureStep("profile-confirm"), with or without the handle shown
StageProfile(e) ==
  /\ exec[e].pc = "profile"
  /\ Capture(e, "profile-confirm", "confirm")
  /\ UNCHANGED <<now, nextRunId, processing, waiting, parse, conn>>

\* find the confirmation button and click it; without a visible button
\* captureStep("profile-confirm-error") and throw
StageConfirm(e) ==
  /\ exec[e].pc = "confirm"
  /\ \/ Move(e, [exec[e] EXCEPT !.pc = "processing"])
     \/ \E dbr \in DbResults :
          /\ Allowed(e, dbr)
          /\ faultsLeft' = Count(dbr)
          /\ LET c == captureStep(Store(docs, nextId), exec[e],
                                  "profile-confirm-error", dbr, now)
             IN  Put(e, c.st,
                     Throw(c.ex, "Could not find profile confirmation button",
                           now))
  /\ UNCHANGED <<now, nextRunId, processing, waiting, parse, conn>>

\* A scrape that waits for the processing view without waiting for the
\* click on the confirmation button.
StageProcessingOutOfTurn(e) ==
  /\ exec[e].pc \in {"confirm", "processing"}
  /\ \/ Capture(e, "processing", "poll")
     \/ Move(e, Skip(exec[e], "poll"))
  /\ UNCHANGED <<now, nextRunId, processing, waiting, parse, conn>>

\* wait for the processing view, captureStep("processing") when it shows
StageProcessing(e) ==
  /\ exec[e].pc = "processing"
  /\ \/ Capture(e, "processing", "poll")
     \/ Move(e, Skip(exec[e], "poll"))
  /\ UNCHANGED <<now, nextRunId, processing, waiting, parse, conn>>

\* Step 6, the whole polling loop in one step: the cards showed in time, or
\* they did not appear within maxWaitTime
StagePoll(e) ==
  /\ exec[e].pc = "poll"
  /\ \/ Move(e, [exec[e] EXCEPT !.pc = "results"])
     \/ Move(e, Throw(exec[e], "Cards did not appear within timeout period",
                      now))
  /\ UNCHANGED <<now, nextRunId, processing, waiting, parse, conn>>

\* captureStep("results") and page.evaluate reading the cards; a throw of
\* page.evaluate is not caught before the catch of scrape()
StageResults(e) ==
  /\ exec[e].pc = "results"
  /\ \E dbr \in DbResults :
       /\ Allowed(e, dbr)
       /\ LET c == captureStep(Store(docs, nextId), exec[e], "results",
                               dbr, now)
          IN  \/ \E data \in CardLists :
                   /\ faultsLeft' = Count(dbr)
                   /\ Put(e, c.st, [c.ex EXCEPT !.pc = "report", !.data = data])
              \/ /\ Count(dbr) > 0
                 /\ faultsLeft' = Count(dbr) - 1
                 /\ Put(e, c.st, Throw(c.ex, "page.evaluate", now))
  /\ UNCHANGED <<now, nextRunId, processing, waiting, parse, conn>>

\* "View Full Report": click and captureStep("full-report") when it shows
StageFullReport(e) ==
  /\ exec[e].pc = "report"
  /\ \/ Capture(e, "full-report", "finish")
     \/ Move(e, Skip(exec[e], "finish"))
  /\ UNCHANGED <<now, nextRunId, processing, waiting, parse, conn>>

\* A scrape that closes the browser and returns without saving its result.
StageFinishUnsaved(e) ==
  /\ exec[e].pc = "finish"
  /\ Put(e, Store(docs, nextId), [exec[e] EXCEPT !.pc = "return"])
  /\ UNCHANGED <<now, nextRunId, faultsLeft, processing, waiting, parse, conn>>

\* browser.close(), saveSnapshotResult, and the snapshotId looked up by
\* getSnapshotByRunId when no captureStep set it; a throw of browser.close()
\* goes to the catch of scrape()
StageFinish(e) ==
  /\ exec[e].pc = "finish"
  /\ \/ \E dbOk \in BOOLEAN :
          LET ex == exec[e]
              st == saveSnapshotResult(Store(docs, nextId), ex.user, ex.runId,
                                       ex.data, dbOk, now)
              saved == getSnapshotByRunId(st.docs, ex.user, ex.runId, dbOk)
          IN  /\ ~dbOk => faultsLeft > 0
              /\ faultsLeft' = IF dbOk THEN faultsLeft ELSE faultsLeft - 1
              /\ Put(e, st, [ex EXCEPT !.pc = "return", !.browser = "closed",
                                       !.snapshotId = IF @ = 0 THEN saved.id ELSE @])
     \/ Crash(e, exec[e], "browser.close") /\ UNCHANGED <<docs, nextId>>
  /\ UNCHANGED <<now, nextRunId, processing, waiting, parse, conn>>

\* return {runId, snapshotId, steps, cards, totalTime}
ScrapeReturn(e) ==
  /\ exec[e].pc = "return"
  /\ exec' = [exec EXCEPT ![e].pc = "settled",
                          ![e].inner = Result(exec[e].runId, exec[e].snapshotId,
                                              exec[e].steps, exec[e].data),
                          ![e].endedAt = now]
  /\ UNCHANGED <<now, docs, nextId, nextRunId, faultsLeft, processing, waiting, req, parse, conn>>

\* ------------------------------------------------------------- ScrapeQueue
\* The .then handler returns the result, the .catch handler rethrows the
\* error: the value the chain carries on to .finally.
ThenHandler(result) == result

\* A .catch handler that notifies and does not rethrow: the chain resolves
\* with undefined.
CatchHandlerSwallows(err) == Result(0, 0, <<>>, <<>>)

CatchHandler(err) == err

\* this.waiting after a caller joined: the list is created when absent and a
\* notify function pushed.
PushWaiter(w, username) ==
  [w EXCEPT ![username] = IF @ = -1 THEN 1 ELSE @ + 1]

\* A queue that never finds the username in processing.
AlreadyProcessingNever(username) == FALSE

\* the first branch of enqueue: is this username being processed?
AlreadyProcessing(username) == processing[username] # 0

\* enqueue(username, scrapeFunction), called by the handler of request r.
\* Joining: the caller keeps the promise found in processing.  Starting:
\* scrapeFunction(username) runs up to its first await, the chained promise
\* is put in processing.  The scrapeFunction of an SSE handler calls
\* scrape() with a callback, the one of the legacy handler without.
enqueue(r, username) ==
  IF AlreadyProcessing(username)
  THEN /\ waiting' = PushWaiter(waiting, username)
       /\ req' = [req EXCEPT ![r].pc = "awaiting", ![r].user = username,
                             ![r].src = processing[username]]
       /\ UNCHANGED <<processing, exec>>
  ELSE /\ exec' = [exec EXCEPT ![r] =
                     [NoExec EXCEPT !.pc = "launch", !.user = username,
                                    !.onStep = req[r].wantsSSE]]
       /\ processing' = [processing EXCEPT ![username] = r]
       /\ req' = [req EXCEPT ![r].pc = "awaiting", ![r].user = username,
                             ![r].src = r]
       /\ UNCHANGED waiting

\* The reaction of .then (on a result) or .catch (on an error) to the
\* settled scrapeFunction promise: notify the waiters, delete the waiting
\* entry, pass the outcome on.
QueueNotify(e) ==
  /\ exec[e].pc = "settled"
  /\ waiting' = [waiting EXCEPT ![exec[e].user] = -1]
  /\ exec' = [exec EXCEPT ![e].pc = "notified",
                          ![e].chained = IF exec[e].inner.kind = "ok"
                                         THEN ThenHandler(exec[e].inner)
                                         ELSE CatchHandler(exec[e].inner)]
  /\ UNCHANGED <<now, docs, nextId, nextRunId, faultsLeft, processing, req, parse, conn>>

\* A .finally that empties processing.
QueueFinallyClears(e) ==
  /\ exec[e].pc = "notified"
  /\ processing' = [u \in Users |-> 0]
  /\ exec' = [exec EXCEPT ![e].pc = "final", ![e].promise = exec[e].chained]
  /\ UNCHANGED <<now, docs, nextId, nextRunId, faultsLeft, waiting, req, parse, conn>>

\* A .finally that leaves the entry in processing.
QueueFinallyKeeps(e) ==
  /\ exec[e].pc = "notified"
  /\ exec' = [exec EXCEPT ![e].pc = "final", ![e].promise = exec[e].chained]
  /\ UNCHANGED <<now, docs, nextId, nextRunId, faultsLeft, processing, waiting, req, parse, conn>>

\* .finally: processing.delete(username); the promise kept in processing
\* settles with the outcome of the chain.
QueueFinally(e) ==
  /\ exec[e].pc = "notified"
  /\ processing' = [processing EXCEPT ![exec[e].user] = 0]
  /\ exec' = [exec EXCEPT ![e].pc = "final", ![e].promise = exec[e].chained]
  /\ UNCHANGED <<now, docs, nextId, nextRunId, faultsLeft, waiting, req, parse, conn>>

\* ------------------------------------------------------ GET /api/stalkers
\* Usernames are interchangeable: "bob" is the name of the second username
\* that turns up.
NamedInOrder(username) ==
  username = "bob" => \E q \in Requests : req[q].user = "alice"

\* The handler up to its await: getRecentSnapshot(username, 60) is sent and
\* answered.  Requests arrive in the order of their numbers.
Request(r, username) ==
  /\ req[r].pc = "idle"
  /\ r <= MaxArrivals
  /\ \A q \in Requests : q < r => req[q].pc # "idle"
  /\ NamedInOrder(username)
  /\ \E dbOk \in BOOLEAN :
       /\ ~dbOk => faultsLeft > 0
       /\ faultsLeft' = IF dbOk THEN faultsLeft ELSE faultsLeft - 1
       /\ req' = [req EXCEPT ![r] =
                 [@ EXCEPT !.pc = "lookup", !.user = username, !.at = now,
                           !.dbOk = dbOk, !.busy = processing[username],
                           !.hit = getRecentSnapshot(docs, username,
                                                     CacheMaxAgeMinutes,
                                                     dbOk, now)]]
  /\ UNCHANGED <<now, docs, nextId, nextRunId, processing, waiting, exec, parse, conn>>

\* res.json of the cached snapshot
CachedResponse(recentSnapshot) ==
  [kind |-> "cached",
   runId |-> recentSnapshot.runId,
   snapshotId |-> recentSnapshot.id,
   steps |-> [i \in 1..Len(recentSnapshot.steps) |->
                [name |-> recentSnapshot.steps[i].name,
                 htmlPath |-> [snapshotId |-> recentSnapshot.id,
                               name |-> recentSnapshot.steps[i].name]]],
   cards |-> recentSnapshot.cards,
   err |-> "", available |-> NotListed]

\* A handler that never takes the cached branch.
CacheHitNever(recentSnapshot) == FALSE

\* if (recentSnapshot)
CacheHit(recentSnapshot) == recentSnapshot # NoDoc

\* The handler after the await: answer from the cache, or enqueue.
Resume(r) ==
  /\ req[r].pc = "lookup"
  /\ IF CacheHit(req[r].hit)
     THEN /\ req' = [req EXCEPT ![r].pc = "done",
                                ![r].resp = CachedResponse(req[r].hit)]
          /\ UNCHANGED <<processing, waiting, exec>>
     ELSE enqueue(r, req[r].user)
  /\ UNCHANGED <<now, docs, nextId, nextRunId, faultsLeft, parse, conn>>

\* The awaited promise has settled: res.json(result), or
\* res.json({error: err.message}).
Respond(r) ==
  /\ req[r].pc = "awaiting"
  /\ ~req[r].wantsSSE
  /\ exec[req[r].src].pc = "final"
  /\ req' = [req EXCEPT ![r].pc = "done",
                        ![r].resp = exec[req[r].src].promise]
  /\ UNCHANGED <<now, docs, nextId, nextRunId, faultsLeft, processing, waiting, exec, parse, conn>>

\* The same handler for a request that asks for an event stream
\* (Accept: text/event-stream, or stream=true).
StreamRequest(r, username) ==
  /\ req[r].pc = "idle"
  /\ r <= MaxArrivals
  /\ \A q \in Requests : q < r => req[q].pc # "idle"
  /\ NamedInOrder(username)
  /\ \E dbOk \in BOOLEAN :
       /\ ~dbOk => faultsLeft > 0
       /\ faultsLeft' = IF dbOk THEN faultsLeft ELSE faultsLeft - 1
       /\ req' = [req EXCEPT ![r] =
                 [@ EXCEPT !.pc = "lookup", !.user = username, !.at = now,
                           !.dbOk = dbOk, !.wantsSSE = TRUE,
                           !.busy = processing[username],
                           !.hit = getRecentSnapshot(docs, username,
                                                     CacheMaxAgeMinutes,
                                                     dbOk, now)]]
  /\ UNCHANGED <<now, docs, nextId, nextRunId, processing, waiting, exec, parse, conn>>

\* The event of the SSE handler's .then and .catch: send("done",
\* finalResult), or send("error", {error: errorMessage}).
FinalEvent(outcome) == IF outcome.kind = "ok" THEN "done" ELSE "error"

\* A 'close' handler that abandons the scrape of its request.
DisconnectCancels(r) ==
  /\ req[r].wantsSSE
  /\ req[r].pc = "awaiting"
  /\ ~req[r].ended
  /\ req' = [req EXCEPT ![r].closed = TRUE, ![r].ended = TRUE]
  /\ exec' = [exec EXCEPT ![req[r].src] =
                IF Running(req[r].src) THEN Throw(@, "Client disconnected", now)
                ELSE @]
  /\ UNCHANGED <<now, docs, nextId, nextRunId, faultsLeft, processing, waiting, parse, conn>>

\* req.on('close'): the client of an SSE request went away while the
\* handler waits for the promise; res.end().
Disconnect(r) ==
  /\ req[r].wantsSSE
  /\ req[r].pc = "awaiting"
  /\ ~req[r].ended
  /\ req' = [req EXCEPT ![r].closed = TRUE, ![r].ended = TRUE]
  /\ UNCHANGED <<now, docs, nextId, nextRunId, faultsLeft, processing, waiting, exec, parse, conn>>

\* The .then or .catch of the SSE handler: the final event is sent and
\* res.end() runs.  resp is what reached the client.
StreamRespond(r) ==
  /\ req[r].pc = "awaiting"
  /\ req[r].wantsSSE
  /\ exec[req[r].src].pc = "final"
  /\ LET outcome == exec[req[r].src].promise
     IN  req' = [req EXCEPT ![r] =
                  [send(@, FinalEvent(outcome), outcome) EXCEPT
                     !.pc = "done", !.ended = TRUE,
                     !.resp = IF req[r].ended THEN NoOutcome ELSE outcome]]
  /\ UNCHANGED <<now, docs, nextId, nextRunId, faultsLeft, processing, waiting, exec, parse, conn>>

\* GET /api/snapshots/:snapshotId/:stepName: a read, it changes nothing.
StepNames ==
  {"landing", "username-entry", "analyzing", "profile-confirm",
   "profile-confirm-error", "processing", "results", "full-report"}

ServeSnapshot(snapshotId, stepName) ==
  /\ getSnapshotStep(docs, snapshotId, stepName, TRUE) \in Nat
  /\ UNCHANGED vars

\* ------------------------------------------------------------ environment
\* The TTL monitor of the database deletes a document that is due; it runs
\* in the background, some time after the document became due.
TTLDelete(d) ==
  /\ d \in docs
  /\ Expired(d, now)
  /\ docs' = docs \ {d}
  /\ UNCHANGED <<now, nextId, nextRunId, faultsLeft, processing, waiting, exec, req, parse, conn>>

\* Time passes.  A scrape takes far less than Tick (its waits are bounded by
\* timeouts that add up to under three minutes), so the clock is advanced
\* between scrapes, not inside one.  The clock is read only to stamp and to
\* age documents: it is advanced while the collection holds one.
Advance ==
  /\ now + Tick <= MaxNow
  /\ docs # {}
  /\ \A e \in Requests : ~Running(e)
  /\ now' = now + Tick
  /\ UNCHANGED <<docs, nextId, nextRunId, faultsLeft, processing, waiting, exec, req, parse, conn>>

Next ==
  \/ \E r \in Requests, u \in Users : Request(r, u)
  \/ \E r \in Requests : Resume(r)
  \/ \E r \in Requests : Respond(r)
  \/ \E e \in Requests : ScrapeLaunch(e)
  \/ \E e \in Requests : StageLanding(e)
  \/ \E e \in Requests : StageReveal(e)
  \/ \E e \in Requests : StageUsername(e)
  \/ \E e \in Requests : StageContinue(e)
  \/ \E e \in Requests : StageAnalyzing(e)
  \/ \E e \in Requests : StageProfile(e)
  \/ \E e \in Requests : StageConfirm(e)
  \/ \E e \in Requests : StageProcessing(e)
  \/ \E e \in Requests : StagePoll(e)
  \/ \E e \in Requests : StageResults(e)
  \/ \E e \in Requests : StageFullReport(e)
  \/ \E e \in Requests : StageFinish(e)
  \/ \E e \in Requests : ScrapeReturn(e)
  \/ \E e \in Requests : QueueNotify(e)
  \/ \E e \in Requests : QueueFinally(e)
  \/ \E d \in docs : \E i \in 1..Len(d.steps) :
       ServeSnapshot(d.id, d.steps[i].name)
  \/ \E d \in docs : TTLDelete(d)
  \/ Advance

Spec == Init /\ [][Next]_vars

\* --------------------------------------- one scrape, the database failing
\* One request, whose scrape runs against a database that fails up to
\* MaxDbFaults times.
InitRun ==
  /\ now = 0
  /\ docs = {}
  /\ nextId = 1
  /\ nextRunId = 1
  /\ faultsLeft = MaxDbFaults
  /\ processing = [u \in Users |-> 0]
  /\ waiting = [u \in Users |-> -1]
  /\ exec = [e \in Requests |-> NoExec]
  /\ req = [r \in Requests |-> NoReq]
  /\ parse = NoParse
  /\ conn = NoConn

NextRun ==
  \/ Request(1, "alice")
  \/ Resume(1)
  \/ Respond(1)
  \/ ScrapeLaunch(1)
  \/ StageLanding(1)
  \/ StageReveal(1)
  \/ StageUsername(1)
  \/ StageContinue(1)
  \/ StageAnalyzing(1)
  \/ StageProfile(1)
  \/ StageConfirm(1)
  \/ StageProcessing(1)
  \/ StagePoll(1)
  \/ StageResults(1)
  \/ StageFullReport(1)
  \/ StageFinish(1)
  \/ ScrapeReturn(1)
  \/ QueueNotify(1)
  \/ QueueFinally(1)

RunSpec == InitRun /\ [][NextRun]_vars

\* ------------------------------------------ scrape() called with a callback
\* scrape(username, onStep) called directly, with a callback that returns
\* or one that throws on every call; the database fails up to MaxDbFaults
\* times.
ScrapeWith(e, username, throws) ==
  /\ exec[e].pc = "none"
  /\ exec' = [exec EXCEPT ![e] =
                [NoExec EXCEPT !.pc = "launch", !.user = username,
                               !.onStep = TRUE, !.throws = throws]]
  /\ UNCHANGED <<now, docs, nextId, nextRunId, faultsLeft, processing, waiting,
                 req, parse, conn>>

NextCallback ==
  \/ \E throws \in BOOLEAN : ScrapeWith(1, "alice", throws)
  \/ ScrapeLaunch(1)
  \/ StageLanding(1)
  \/ StageReveal(1)
  \/ StageUsername(1)
  \/ StageContinue(1)
  \/ StageAnalyzing(1)
  \/ StageProfile(1)
  \/ StageConfirm(1)
  \/ StageProcessing(1)
  \/ StagePoll(1)
  \/ StageResults(1)
  \/ StageFullReport(1)
  \/ StageFinish(1)
  \/ ScrapeReturn(1)

CallbackSpec == InitRun /\ [][NextCallback]_vars

\* ------------------------------------------- the ScrapeQueue on its own
\* enqueue(username, scrapeFunction) takes any scrapeFunction: here it is a
\* task that settles with a result or with an error, and MaxRequests callers
\* call enqueue directly.
Call(r, username) ==
  /\ req[r].pc = "idle"
  /\ \A q \in Requests : q < r => req[q].pc # "idle"
  /\ NamedInOrder(username)
  /\ enqueue(r, username)
  /\ UNCHANGED <<now, docs, nextId, nextRunId, faultsLeft, parse, conn>>

\* What the scrapeFunction of execution e may settle with.
Outcomes(e) ==
  {Result(e, e, <<>>, <<>>), Failure("ElementNotFound"),
   Failure("TimeoutExceeded")}

Settle(e) ==
  /\ exec[e].pc = "launch"
  /\ \E out \in Outcomes(e) :
       exec' = [exec EXCEPT ![e].pc = "settled", ![e].inner = out,
                            ![e].endedAt = now]
  /\ UNCHANGED <<now, docs, nextId, nextRunId, faultsLeft, processing, waiting, req, parse, conn>>

NextQueue ==
  \/ \E r \in Requests, u \in Users : Call(r, u)
  \/ \E e \in Requests : Settle(e)
  \/ \E e \in Requests : QueueNotify(e)
  \/ \E e \in Requests : QueueFinally(e)
  \/ \E r \in Requests : Respond(r)

QueueSpec == Init /\ [][NextQueue]_vars

\* Promise reactions are jobs of the microtask queue: a reaction that is
\* due runs.  Nothing makes a caller call or a scrapeFunction settle.
QueueFair ==
  /\ QueueSpec
  /\ \A e \in Requests : WF_vars(QueueNotify(e)) /\ WF_vars(QueueFinally(e))
  /\ \A r \in Requests : WF_vars(Respond(r))

\* ------------------------------------------------------ streaming callers
\* An SSE request and a legacy request for the same username; the SSE
\* client may go away while its handler waits.  The database does not fail.
NextStream ==
  \/ StreamRequest(1, "alice")
  \/ Request(2, "alice")
  \/ \E r \in Requests : Resume(r)
  \/ \E r \in Requests : Respond(r)
  \/ \E r \in Requests : StreamRespond(r)
  \/ \E r \in Requests : Disconnect(r)
  \/ \E e \in Requests : ScrapeLaunch(e)
  \/ \E e \in Requests : StageLanding(e)
  \/ \E e \in Requests : StageReveal(e)
  \/ \E e \in Requests : StageUsername(e)
  \/ \E e \in Requests : StageContinue(e)
  \/ \E e \in Requests : StageAnalyzing(e)
  \/ \E e \in Requests : StageProfile(e)
  \/ \E e \in Requests : StageConfirm(e)
  \/ \E e \in Requests : StageProcessing(e)
  \/ \E e \in Requests : StagePoll(e)
  \/ \E e \in Requests : StageResults(e)
  \/ \E e \in Requests : StageFullReport(e)
  \/ \E e \in Requests : StageFinish(e)
  \/ \E e \in Requests : ScrapeReturn(e)
  \/ \E e \in Requests : QueueNotify(e)
  \/ \E e \in Requests : QueueFinally(e)

StreamSpec == Init /\ [][NextStream]_vars

\* The step of scrape() that is due, the promise reaction that is due, and
\* the continuation of a handler that is due: for one execution or request
\* at most one of each is enabled.
ScrapeStep(e) ==
  \/ ScrapeLaunch(e) \/ StageLanding(e) \/ StageReveal(e) \/ StageUsername(e)
  \/ StageContinue(e) \/ StageAnalyzing(e) \/ StageProfile(e)
  \/ StageConfirm(e) \/ StageProcessing(e) \/ StagePoll(e)
  \/ StageResults(e) \/ StageFullReport(e) \/ StageFinish(e)
  \/ ScrapeReturn(e)

QueueStep(e) == QueueNotify(e) \/ QueueFinally(e)

HandlerStep(r) == Resume(r) \/ Respond(r) \/ StreamRespond(r)

\* A stage of scrape() ends: each wait has a timeout, each await settles.
\* Promise reactions that are due run.  Nothing makes a request arrive or a
\* client go away.
StreamFair ==
  /\ StreamSpec
  /\ \A e \in Requests : WF_vars(ScrapeStep(e)) /\ WF_vars(QueueStep(e))
  /\ \A r \in Requests : WF_vars(HandlerStep(r))

\* One SSE request whose scrape runs against a database that fails up to
\* MaxDbFaults times.
NextStreamRun ==
  \/ StreamRequest(1, "alice")
  \/ Resume(1)
  \/ StreamRespond(1)
  \/ Disconnect(1)
  \/ ScrapeLaunch(1)
  \/ StageLanding(1)
  \/ StageReveal(1)
  \/ StageUsername(1)
  \/ StageContinue(1)
  \/ StageAnalyzing(1)
  \/ StageProfile(1)
  \/ StageConfirm(1)
  \/ StageProcessing(1)
  \/ StagePoll(1)
  \/ StageResults(1)
  \/ StageFullReport(1)
  \/ StageFinish(1)
  \/ ScrapeReturn(1)
  \/ QueueNotify(1)
  \/ QueueFinally(1)

StreamRun == InitRun /\ [][NextStreamRun]_vars

\* -------------------------------------------------------------- connectDB
\* connectDB() await by await.  Each await may be followed by steps of other
\* calls.
Others == <<now, docs, nextId, nextRunId, faultsLeft, processing, waiting,
            exec, req, parse>>

\* return of call c
Return(c, dbClient, db, ret) ==
  conn' = [conn EXCEPT !.dbClient = dbClient, !.db = db,
                       !.call[c] = [@ EXCEPT !.pc = "done", !.ret = ret]]

\* the catch up to its await: with a client, await dbClient.close();
\* without, return null
Catch(c) ==
  IF conn.dbClient # 0
  THEN conn' = [conn EXCEPT !.call[c].pc = "closing"]
  ELSE Return(c, conn.dbClient, conn.db, 0)

\* connectDB() up to its first await: with a client and a handle return db,
\* else dbClient = new MongoClient(...) and await dbClient.connect().  The
\* calls are numbered in the order in which they are made.
ConnBegin(c) ==
  /\ conn.call[c].pc = "idle"
  /\ \A b \in Calls : b < c => conn.call[b].pc # "idle"
  /\ IF conn.dbClient # 0 /\ conn.db # 0
     THEN Return(c, conn.dbClient, conn.db, conn.db)
     ELSE conn' = [conn EXCEPT
                     !.dbClient = conn.nextClient,
                     !.nextClient = @ + 1,
                     !.call[c] = [@ EXCEPT !.pc = "connecting",
                                           !.client = conn.nextClient]]
  /\ UNCHANGED Others

\* connect() has settled: it threw, or await dbClient.db("admin").command
\* is called, which throws when dbClient is null by now
ConnConnect(c) ==
  /\ conn.call[c].pc = "connecting"
  /\ \E ok \in BOOLEAN :
       IF ok /\ conn.dbClient # 0
       THEN conn' = [conn EXCEPT !.call[c].pc = "pinging"]
       ELSE Catch(c)
  /\ UNCHANGED Others

\* the ping has settled: it threw, or db = dbClient.db(DB_NAME) and await
\* setupTTLIndex(), whose own connectDB() finds the client and the handle
ConnPing(c) ==
  /\ conn.call[c].pc = "pinging"
  /\ \E ok \in BOOLEAN :
       IF ok /\ conn.dbClient # 0
       THEN conn' = [conn EXCEPT !.db = conn.dbClient,
                                 !.call[c].pc = "indexing"]
       ELSE Catch(c)
  /\ UNCHANGED Others

\* setupTTLIndex() has settled (it catches what createIndex throws):
\* return db
ConnIndex(c) ==
  /\ conn.call[c].pc = "indexing"
  /\ Return(c, conn.dbClient, conn.db, conn.db)
  /\ UNCHANGED Others

\* A catch that returns null and leaves dbClient and db as they are.
ConnCloseKeeps(c) ==
  /\ conn.call[c].pc = "closing"
  /\ Return(c, conn.dbClient, conn.db, 0)
  /\ UNCHANGED Others

\* close() has settled or thrown: dbClient = null; db = null; return null
ConnClose(c) ==
  /\ conn.call[c].pc = "closing"
  /\ Return(c, 0, 0, 0)
  /\ UNCHANGED Others

\* The call at server start and the calls of the first store operations.
NextConn ==
  \/ \E c \in Calls : ConnBegin(c)
  \/ \E c \in Calls : ConnConnect(c)
  \/ \E c \in Calls : ConnPing(c)
  \/ \E c \in Calls : ConnIndex(c)
  \/ \E c \in Calls : ConnClose(c)

ConnSpec == Init /\ [][NextConn]_vars

\* ------------------------------------------- the confirmation button
\* The buttons of the profile page in document order: the text of each and
\* whether it is visible within the wait.
MaxButtons == 2

\* const buttonTexts
buttonTexts ==
  <<"Continue, the profile is correct", "profile is correct", "Continue">>

\* has-text: which of buttonTexts the text of a button contains, letter case
\* aside.
HasText(text, buttonText) ==
  CASE text = "Continue, the profile is correct" -> TRUE
    [] text = "Yes, the profile is correct" -> buttonText = "profile is correct"
    [] text = "continue" -> buttonText = "Continue"
    [] OTHER -> FALSE

Buttons ==
  {[text |-> text, visible |-> visible] :
     text \in {"Continue, the profile is correct", "Yes, the profile is correct",
               "continue", "No, I want to correct it"},
     visible \in BOOLEAN}

ButtonLists == UNION {[1..k -> Buttons] : k \in 0..MaxButtons}

\* page.locator(`button:has-text("${buttonText}")`).first(): the position
\* of the first button with the text, 0 when there is none.
FirstWithText(buttons, buttonText) ==
  LET found == {i \in 1..Len(buttons) : HasText(buttons[i].text, buttonText)}
  IN  IF found = {} THEN 0 ELSE CHOOSE i \in found : \A j \in found : i <= j

\* waitFor({state: 'visible'}) and isVisible() of that locator
LocatorVisible(buttons, buttonText) ==
  /\ FirstWithText(buttons, buttonText) # 0
  /\ buttons[FirstWithText(buttons, buttonText)].visible

\* the loop over page.locator('button').all(): the first visible button
FirstVisible(buttons) ==
  LET shown == {i \in 1..Len(buttons) : buttons[i].visible}
  IN  IF shown = {} THEN 0 ELSE CHOOSE i \in shown : \A j \in shown : i <= j

\* A search that takes any visible button before it looks for the texts.
confirmButtonAnyFirst(buttons) ==
  LET hits == {k \in 1..Len(buttonTexts) : LocatorVisible(buttons, buttonTexts[k])}
  IN  IF FirstVisible(buttons) # 0 THEN FirstVisible(buttons)
      ELSE IF hits # {}
      THEN FirstWithText(buttons,
                         buttonTexts[CHOOSE k \in hits : \A m \in hits : k <= m])
      ELSE 0

\* confirmButton: the locator of the first of buttonTexts whose first button
\* is visible, else the first visible button, else null (0).
confirmButton(buttons) ==
  LET hits == {k \in 1..Len(buttonTexts) : LocatorVisible(buttons, buttonTexts[k])}
  IN  IF hits # {}
      THEN FirstWithText(buttons,
                         buttonTexts[CHOOSE k \in hits : \A m \in hits : k <= m])
      ELSE FirstVisible(buttons)

\* StageConfirm with the buttons of the page: click confirmButton, or
\* without one captureStep("profile-confirm-error") and throw.
StageConfirmButtons(e) ==
  /\ exec[e].pc = "confirm"
  /\ \E buttons \in ButtonLists :
       LET ex == [exec[e] EXCEPT !.buttons = buttons,
                                 !.clicked = confirmButton(buttons)]
       IN  IF confirmButton(buttons) # 0
           THEN Move(e, [ex EXCEPT !.pc = "processing"])
           ELSE \E dbr \in DbResults :
                  /\ Allowed(e, dbr)
                  /\ faultsLeft' = Count(dbr)
                  /\ LET c == captureStep(Store(docs, nextId), ex,
                                          "profile-confirm-error", dbr, now)
                     IN  Put(e, c.st,
                             Throw(c.ex,
                                   "Could not find profile confirmation button",
                                   now))
  /\ UNCHANGED <<now, nextRunId, processing, waiting, parse, conn>>

\* One request and its scrape, with the buttons of the profile page.
NextConfirm ==
  \/ Request(1, "alice")
  \/ Resume(1)
  \/ Respond(1)
  \/ ScrapeLaunch(1)
  \/ StageLanding(1)
  \/ StageReveal(1)
  \/ StageUsername(1)
  \/ StageContinue(1)
  \/ StageAnalyzing(1)
  \/ StageProfile(1)
  \/ StageConfirmButtons(1)
  \/ StageProcessing(1)
  \/ StagePoll(1)
  \/ StageResults(1)
  \/ StageFullReport(1)
  \/ StageFinish(1)
  \/ ScrapeReturn(1)
  \/ QueueNotify(1)
  \/ QueueFinally(1)

ConfirmSpec == Init /\ [][NextConfirm]_vars

\* ------------------------------------------------------- the polling loop
\* The polling loop of scrape() iteration by iteration, in place of
\* StagePoll.  What one page.evaluate meets: it throws, or it finds the
\* elements matching the card selector, each with its bounding rectangle.
CardRects ==
  {[width |-> 0, height |-> 0], [width |-> 10, height |-> 0],
   [width |-> 10, height |-> 20]}

PollPages ==
  {[throws |-> TRUE, cards |-> {}]} \cup
  {[throws |-> FALSE, cards |-> c] : c \in SUBSET CardRects}

\* A check that is content with any card, shown or not.
CardsPresent(cards) == cards # {}

\* The function page.evaluate runs: is one of the cards shown?
CardsVisible(cards) == \E card \in cards : card.width > 0 /\ card.height > 0

\* One iteration: the loop condition held, page.evaluate ran; with a result
\* of true the loop is left, otherwise (false, or a throw caught by the
\* empty catch) waitForTimeout(pollInterval) runs; the iteration took
\* late poll intervals more than it waited.
PollTick(e, page, late) ==
  /\ exec[e].pc = "poll"
  /\ exec[e].elapsed < MaxWaitTime
  /\ IF ~page.throws /\ CardsVisible(page.cards)
     THEN exec' = [exec EXCEPT ![e].pc = "results"]
     ELSE exec' = [exec EXCEPT ![e].elapsed = @ + PollInterval * (1 + late)]
  /\ UNCHANGED <<now, docs, nextId, nextRunId, faultsLeft, processing, waiting, req, parse, conn>>

\* The loop condition fails with cardsFound false: throw
PollExit(e) ==
  /\ exec[e].pc = "poll"
  /\ exec[e].elapsed >= MaxWaitTime
  /\ exec' = [exec EXCEPT
                ![e] = Throw(@, "Cards did not appear within timeout period", now)]
  /\ UNCHANGED <<now, docs, nextId, nextRunId, faultsLeft, processing, waiting, req, parse, conn>>

Poll(e) == \E page \in PollPages, late \in 0..MaxLateTicks : PollTick(e, page, late)

\* One request and its scrape, with the polling loop in full.
NextPoll ==
  \/ Request(1, "alice")
  \/ Resume(1)
  \/ Respond(1)
  \/ ScrapeLaunch(1)
  \/ StageLanding(1)
  \/ StageReveal(1)
  \/ StageUsername(1)
  \/ StageContinue(1)
  \/ StageAnalyzing(1)
  \/ StageProfile(1)
  \/ StageConfirm(1)
  \/ StageProcessing(1)
  \/ Poll(1)
  \/ PollExit(1)
  \/ StageResults(1)
  \/ StageFullReport(1)
  \/ StageFinish(1)
  \/ ScrapeReturn(1)
  \/ QueueNotify(1)
  \/ QueueFinally(1)

PollSpec == Init /\ [][NextPoll]_vars

\* The event loop runs the continuation of scrape() once page.evaluate and
\* the timer have settled.
PollFair == PollSpec /\ WF_vars(Poll(1)) /\ WF_vars(PollExit(1))

\* ------------------------------------------------------- snapshot parsers
\* A text of the profile page is the sequence of its characters.
Letters ==
  {"a", "b", "c", "d", "e", "f", "g", "h", "i", "j", "k", "l", "m", "n", "o",
   "p", "q", "r", "s", "t", "u", "v", "w", "x", "y", "z"}

Capitals == {"H", "I", "S"}

\* the class \w
WordChars == Letters \cup Capitals \cup {"0", "1", "_"}

\* the flag i of a pattern: letters are compared in lower case
Lower(c) ==
  CASE c = "H" -> "h"
    [] c = "I" -> "i"
    [] c = "S" -> "s"
    [] OTHER -> c

Lowered(text) == [i \in 1..Len(text) |-> Lower(text[i])]

\* (Hello|Is|Continue|the|profile|correct|No|want|correct|it)
Stoplist ==
  {<<"h", "e", "l", "l", "o">>, <<"i", "s">>,
   <<"c", "o", "n", "t", "i", "n", "u", "e">>, <<"t", "h", "e">>,
   <<"p", "r", "o", "f", "i", "l", "e">>,
   <<"c", "o", "r", "r", "e", "c", "t">>, <<"n", "o">>,
   <<"w", "a", "n", "t">>, <<"i", "t">>}

\* /^@/.test(text), text.startsWith("@")
StartsWithAt(text) == Len(text) > 0 /\ text[1] = "@"

\* Does a word of the stoplist stand in text from position i on?
StopwordAt(text, i) ==
  {w \in Stoplist :
     /\ i + Len(w) - 1 <= Len(text)
     /\ Lowered(SubSeq(text, i, i + Len(w) - 1)) = w}

\* rawText.match(/^(@[\w_]+)/i): "@" and the word characters after it, or
\* the empty text when "@" is not followed by one.
UsernameMatch(rawText) ==
  IF ~(StartsWithAt(rawText) /\ Len(rawText) > 1 /\ rawText[2] \in WordChars)
  THEN <<>>
  ELSE LET last == CHOOSE n \in 2..Len(rawText) :
                     /\ \A i \in 2..n : rawText[i] \in WordChars
                     /\ n < Len(rawText) => rawText[n + 1] \notin WordChars
       IN  SubSeq(rawText, 1, last)

\* text.replace(/(Hello|...|it)$/i, ''): the match is the leftmost one that
\* reaches the end of the text.
StripStopword(text) ==
  LET starts == {i \in 1..Len(text) :
                   \E w \in StopwordAt(text, i) : i + Len(w) - 1 = Len(text)}
  IN  IF starts = {} THEN text
      ELSE SubSeq(text, 1, (CHOOSE i \in starts : \A j \in starts : i <= j) - 1)

\* rawText.split(/(Hello|...|it)/i)[0]: the text before the first word of
\* the stoplist.
SplitHead(text) ==
  LET starts == {i \in 1..Len(text) : StopwordAt(text, i) # {}}
  IN  IF starts = {} THEN text
      ELSE SubSeq(text, 1, (CHOOSE i \in starts : \A j \in starts : i <= j) - 1)

\* A clean-up that keeps what the pattern matched.
cleanUsernameKeepsMatch(rawText) ==
  IF UsernameMatch(rawText) # <<>> THEN UsernameMatch(rawText)
  ELSE IF StartsWithAt(rawText) THEN SplitHead(rawText)
  ELSE <<>>

\* cleanUsername of parseProfileSnapshot, from the trimmed text of
\* usernameNode
cleanUsername(rawText) ==
  IF UsernameMatch(rawText) # <<>>
  THEN LET cleaned == StripStopword(UsernameMatch(rawText))
       IN  IF StartsWithAt(cleaned) THEN cleaned ELSE UsernameMatch(rawText)
  ELSE IF StartsWithAt(rawText) THEN SplitHead(rawText)
  ELSE <<>>

\* usernameNodes: the positions of the span, div and p nodes whose text
\* starts with "@", in the order of a stable sort by text length.
UsernameNodes(nodes) == {i \in 1..Len(nodes) : StartsWithAt(nodes[i])}

\* A choice of the node that comes first in the document.
usernameNodeFirst(nodes) ==
  CHOOSE i \in UsernameNodes(nodes) : \A j \in UsernameNodes(nodes) : i <= j

\* usernameNodes[0]
usernameNode(nodes) ==
  CHOOSE i \in UsernameNodes(nodes) :
    \A j \in UsernameNodes(nodes) :
      \/ Len(nodes[i]) < Len(nodes[j])
      \/ Len(nodes[i]) = Len(nodes[j]) /\ i <= j

\* extractAvatar(doc): styled is the url(...) of the first node whose style
\* has background-image ("" when the style has no url), img the src of the
\* first img[src].
extractAvatar(page) ==
  IF page.styled # Absent /\ page.styled.url # "" THEN page.styled
  ELSE IF page.img # Absent THEN page.img
  ELSE Null

\* avatar || null
OrNull(avatar) == IF avatar = Null \/ avatar.url = "" THEN Null ELSE avatar

\* A parseProfileSnapshot without its try and catch.
parseProfileSnapshotThrows(page) ==
  IF ~page.readable THEN [threw |-> TRUE]
  ELSE [avatar |-> OrNull(extractAvatar(page)),
        username |-> IF UsernameNodes(page.nodes) = {} THEN <<>>
                     ELSE cleanUsername(page.nodes[usernameNode(page.nodes)])]

\* parseProfileSnapshot(htmlPath): readFile throws for a file that cannot be
\* read and the catch returns null.  Of the record, avatar and username;
\* the other fields are read from nodes of their own.
parseProfileSnapshot(page) ==
  IF ~page.readable THEN Null
  ELSE [avatar |-> OrNull(extractAvatar(page)),
        username |-> IF UsernameNodes(page.nodes) = {} THEN <<>>
                     ELSE cleanUsername(page.nodes[usernameNode(page.nodes)])]

\* A text of the processing page: which text it is (the texts it is put
\* together from), its length, and whether the keyword pattern matches it.
NoText == [id |-> <<>>, len |-> 0, kw |-> FALSE]

\* li.textContent of an item with direct text and the text of its nested
\* elements
Joined(direct, inner) ==
  IF inner = NoText THEN direct
  ELSE IF direct = NoText THEN inner
  ELSE [id |-> direct.id \o inner.id, len |-> direct.len + inner.len,
        kw |-> direct.kw \/ inner.kw]

MinTextLength == 20
MaxTextLength == 200

\* const text = nestedText.length < 200 ? nestedText : directText
ItemText(li) ==
  IF Joined(li.direct, li.inner).len < MaxTextLength
  THEN Joined(li.direct, li.inner)
  ELSE li.direct

\* the two ifs around bullets.push(text) of a list item
ItemTaken(li) ==
  /\ li.direct # NoText
  /\ li.direct.len > MinTextLength
  /\ ItemText(li) # NoText
  /\ ItemText(li).kw

\* the if around bullets.push(text) of a paragraph
ParagraphTaken(text) ==
  text.len > MinTextLength /\ text.len < MaxTextLength /\ text.kw

\* bullets after listItems.forEach
ListBullets(items) ==
  LET taken == SelectSeq(items, ItemTaken)
  IN  [i \in 1..Len(taken) |-> ItemText(taken[i])]

\* A pass over the paragraphs that does not look at bullets.length.
BulletsFromBoth(page) ==
  ListBullets(page.items) \o SelectSeq(page.paragraphs, ParagraphTaken)

\* bullets after the paragraphs were looked at, if (bullets.length === 0)
Bullets(page) ==
  IF ListBullets(page.items) = <<>>
  THEN SelectSeq(page.paragraphs, ParagraphTaken)
  ELSE ListBullets(page.items)

\* arr.filter((text, index, arr) => arr.indexOf(text) === index)
RECURSIVE FirstOccurrences(_)
FirstOccurrences(arr) ==
  IF arr = <<>> THEN <<>>
  ELSE LET front == SubSeq(arr, 1, Len(arr) - 1)
           last == arr[Len(arr)]
       IN  IF \E i \in 1..Len(front) : front[i] = last
           THEN FirstOccurrences(front)
           ELSE Append(FirstOccurrences(front), last)

\* A filter that keeps every occurrence.
uniqueBulletsKeepsAll(bullets) ==
  SelectSeq(bullets, LAMBDA text : text.len < MaxTextLength)

\* uniqueBullets
uniqueBullets(bullets) ==
  SelectSeq(FirstOccurrences(bullets), LAMBDA text : text.len < MaxTextLength)

\* parseProcessingSnapshot(htmlPath).  Of the record, avatar and bullets.
parseProcessingSnapshot(page) ==
  IF ~page.readable THEN Null
  ELSE [avatar |-> OrNull(extractAvatar(page)),
        bullets |-> uniqueBullets(Bullets(page))]

\* An element of the full report: is it a div whose class has rounded-full,
\* does its style have background-image, and the data:image url it carries
\* (in the url(...) of its style when bg, in another attribute otherwise):
\* whether the url has "base64," and how long it is.
MinImageLength == 200
MinBase64Run == 200
LargeImageLength == 500

\* the length of "data:image/png;base64,"
HeadLength == 22

\* startsWith("data:image") && includes("base64,") && length > 200
Embedded(image) ==
  image # Absent /\ image.base64 /\ image.length > MinImageLength

\* Method 1: the rounded-full divs whose style has background-image and
\* data:image
Method1(elements) ==
  {i \in 1..Len(elements) :
     /\ elements[i].roundedFull /\ elements[i].bg
     /\ Embedded(elements[i].image)}

\* Method 2: the elements whose style has background-image and data:image
Method2(elements) ==
  {i \in 1..Len(elements) : elements[i].bg /\ Embedded(elements[i].image)}

\* Method 3: the matches of /data:image\/[^;]+;base64,[A-Za-z0-9+/=]{200,}/g
\* in the html that are longer than 500
Method3(elements) ==
  {i \in 1..Len(elements) :
     /\ elements[i].image # Absent
     /\ elements[i].image.base64
     /\ elements[i].image.length - HeadLength >= MinBase64Run
     /\ elements[i].image.length > LargeImageLength}

\* the first of a loop that breaks at its first success
FirstOf(indices) == CHOOSE i \in indices : \A j \in indices : i <= j

\* A search that scans the html before it looks at the styles.
avatarOfScanFirst(elements) ==
  IF Method3(elements) # {} THEN elements[FirstOf(Method3(elements))].image
  ELSE IF Method1(elements) # {} THEN elements[FirstOf(Method1(elements))].image
  ELSE IF Method2(elements) # {} THEN elements[FirstOf(Method2(elements))].image
  ELSE Null

\* avatar of parseFullReport
avatarOf(elements) ==
  IF Method1(elements) # {} THEN elements[FirstOf(Method1(elements))].image
  ELSE IF Method2(elements) # {} THEN elements[FirstOf(Method2(elements))].image
  ELSE IF Method3(elements) # {} THEN elements[FirstOf(Method3(elements))].image
  ELSE Null

\* The text of the body as the patterns of the pricing see it: "n USD",
\* "from n USD", "n% off", "m:ss", and other words.
DefaultPrice == 199
DefaultOriginalPrice == 1299
DefaultDiscount == 80
DefaultCountdown == "14:59"

\* text.match(pattern): the first piece of the body with one of the tags
Matches(body, tags) == {i \in 1..Len(body) : body[i].tag \in tags}

\* priceMatch ? parseInt(priceMatch[1]) : 199, and the like
ValueOr(body, tags, default) ==
  IF Matches(body, tags) = {} THEN default
  ELSE body[FirstOf(Matches(body, tags))].value

\* pricing of parseFullReport: /(\d+)\s*USD/i also matches in "from n USD"
pricingOf(body) ==
  [original |-> ValueOr(body, {"fromusd"}, DefaultOriginalPrice),
   current |-> ValueOr(body, {"usd", "fromusd"}, DefaultPrice),
   discount |-> ValueOr(body, {"off"}, DefaultDiscount),
   countdown |-> IF Matches(body, {"clock"}) = {} THEN DefaultCountdown
                 ELSE body[FirstOf(Matches(body, {"clock"}))].text]

\* parseFullReport(html): null for no html (!html), and from the catch.  Of
\* the record, avatar and pricing.
parseFullReport(page) ==
  IF ~page.readable THEN Null
  ELSE [avatar |-> avatarOf(page.elements), pricing |-> pricingOf(page.body)]

\* ------------------------------------------------- the pages of the parsers
MaxNodes == 2
MaxItems == 2
MaxParagraphs == 2
MaxElements == 2
MaxBody == 2
ExampleItems == 5

\* The sequences over a set up to a length.
SeqUpTo(S, n) == UNION {[1..k -> S] : k \in 0..n}

\* Texts of the profile page: "@", a handle, a word run on to it, and what
\* follows after a space; and texts without "@".
Stems ==
  {<<>>, <<"j", "o", "h", "n", "_", "d", "o", "e">>, <<"b", "a", "n", "d">>}

RunOnWords ==
  {<<>>, <<"H", "e", "l", "l", "o">>, <<"i", "t">>, <<"I", "S">>,
   <<"H", "e", "l", "l", "o", "I", "s">>}

Rests == {<<>>, <<" ", "o", "k">>}

HandleTexts ==
  {<<"@">> \o stem \o word \o rest :
     stem \in Stems, word \in RunOnWords, rest \in Rests}

NodeTexts ==
  HandleTexts \cup {<<"H", "e", "l", "l", "o">>, <<"j", "o", "h", "n">>}

Url(text) == [url |-> text]

ProfilePages ==
  {[EmptyPage EXCEPT !.nodes = nodes] : nodes \in SeqUpTo(NodeTexts, MaxNodes)}
  \cup
  {[EmptyPage EXCEPT !.styled = styled, !.img = img] :
     styled \in {Absent, Url(""), Url("a.png")},
     img \in {Absent, Url(""), Url("b.png")}}

\* Texts of the processing page.
Fact(name, len, kw) == [id |-> <<name>>, len |-> len, kw |-> kw]

FactTexts ==
  {Fact("s", 10, TRUE), Fact("e", 20, TRUE), Fact("a", 50, TRUE),
   Fact("b", 60, TRUE), Fact("x", 50, FALSE), Fact("m", 200, TRUE),
   Fact("l", 250, TRUE)}

ListItems ==
  {[direct |-> direct, inner |-> inner] :
     direct \in FactTexts \cup {NoText},
     inner \in {NoText, Fact("a", 50, TRUE), Fact("n", 70, FALSE),
                Fact("l", 250, TRUE)}}

ProcessingPages ==
  {[EmptyPage EXCEPT !.items = items, !.paragraphs = paragraphs] :
     items \in SeqUpTo(ListItems, MaxItems),
     paragraphs \in SeqUpTo({Fact("a", 50, TRUE), Fact("p", 80, TRUE),
                             Fact("x", 50, FALSE)}, MaxParagraphs)}
  \cup
  {[EmptyPage EXCEPT !.items = items] :
     items \in [1..ExampleItems ->
                  {[direct |-> t, inner |-> NoText] :
                     t \in {Fact("a", 50, TRUE), Fact("x", 50, FALSE),
                            Fact("s", 10, TRUE)}}]}

\* Elements of the full report with an embedded image of 150, 300 or 10000
\* characters, or without one.
Images ==
  {Absent} \cup
  {[base64 |-> base64, length |-> length] :
     base64 \in BOOLEAN, length \in {150, 300, 10000}}

Elements ==
  {[roundedFull |-> roundedFull, bg |-> bg, image |-> image] :
     roundedFull \in BOOLEAN, bg \in BOOLEAN, image \in Images}

BodyPieces ==
  {[tag |-> "usd", value |-> 49, text |-> "49 USD"],
   [tag |-> "fromusd", value |-> 99, text |-> "from 99 USD"],
   [tag |-> "off", value |-> 50, text |-> "50% off"],
   [tag |-> "clock", value |-> 0, text |-> "09:30"],
   [tag |-> "words", value |-> 0, text |-> "Unlock"]}

ReportPages ==
  {[EmptyPage EXCEPT !.elements = elements] :
     elements \in SeqUpTo(Elements, MaxElements)}
  \cup
  {[EmptyPage EXCEPT !.body = body] : body \in SeqUpTo(BodyPieces, MaxBody)}

\* A file that cannot be read, html that is empty.
Unreadable == [EmptyPage EXCEPT !.readable = FALSE]

Pages == ProfilePages \cup ProcessingPages \cup ReportPages \cup {Unreadable}

\* One call of a parser with a page.
Returns(fn, out) ==
  /\ parse.fn = "none"
  /\ parse' = [parse EXCEPT !.fn = fn, !.returned = TRUE, !.out = out]
  /\ UNCHANGED <<now, docs, nextId, nextRunId, faultsLeft, processing, waiting,
                 exec, req, conn>>

ParseProfile ==
  Returns("parseProfileSnapshot", parseProfileSnapshot(parse.input))

ParseProcessing ==
  Returns("parseProcessingSnapshot", parseProcessingSnapshot(parse.input))

ParseReport == Returns("parseFullReport", parseFullReport(parse.input))

InitParse ==
  /\ now = 0
  /\ docs = {}
  /\ nextId = 1
  /\ nextRunId = 1
  /\ faultsLeft = 0
  /\ processing = [u \in Users |-> 0]
  /\ waiting = [u \in Users |-> -1]
  /\ exec = [e \in Requests |-> NoExec]
  /\ req = [r \in Requests |-> NoReq]
  /\ parse \in {[NoParse EXCEPT !.input = page] : page \in Pages}
  /\ conn = NoConn

NextParse == ParseProfile \/ ParseProcessing \/ ParseReport

ParseSpec == InitParse /\ [][NextParse]_vars

\* ================================================================ claims
\* An execution is in flight from the call of scrapeFunction until the
\* promise kept in processing has settled.
InFlight(e) == exec[e].pc \in {"launch", "goto", "reveal", "username",
                               "continue", "analyzing", "profile", "confirm",
                               "processing", "poll", "results", "report",
                               "finish", "return", "settled", "notified"}

InFlightFor(u) == {e \in Requests : InFlight(e) /\ exec[e].user = u}

Attached(e) == {r \in Requests : req[r].pc = "awaiting" /\ req[r].src = e}

\* C1: for every username at most one execution is in flight, and it is the
\* one processing holds: a caller that finds it does not start another.
C1_OneInFlight ==
  \A u \in Users :
    /\ Cardinality(InFlightFor(u)) <= 1
    /\ \A e \in InFlightFor(u) : processing[u] = e

\* Three callers of one username share one running execution.
C1_Witness ==
  \E e \in Requests :
    /\ exec[e].pc = "launch"
    /\ Cardinality(Attached(e)) >= 3
    /\ \A x \in Requests \ {e} : exec[x].pc = "none"

\* C2: a caller that got its answer from an execution got exactly what the
\* scrapeFunction of that execution settled with: its result, or its error
\* with the same message.
C2_SameOutcome ==
  \A r \in Requests :
    req[r].pc = "done" /\ req[r].src # 0 =>
      /\ exec[req[r].src].inner.kind \in {"ok", "error"}
      /\ req[r].resp = exec[req[r].src].inner

\* A caller that joined an execution got its error, as did the caller that
\* started it; a caller of a later execution got its result.
C2_Witness ==
  \E r \in Requests, q \in Requests :
    /\ req[r].pc = "done" /\ req[r].src # r /\ req[r].src # 0
    /\ req[r].resp.kind = "error"
    /\ req[req[r].src].pc = "done" /\ req[req[r].src].resp = req[r].resp
    /\ req[q].pc = "done" /\ req[q].src = q
    /\ req[q].resp.kind = "ok"

DocsOf(d, u) == {x \in d : x.user = u}

\* C4: executions of different usernames do not touch each other. A caller
\* is attached only to an execution of its own username; a caller whose
\* username is not in processing starts its execution at once, whatever
\* other usernames are in flight; a step of one execution, its failure
\* included, changes neither another username's execution, nor its entry
\* in processing, nor its waiting list, nor its stored snapshots.
C4_Independent ==
  /\ [](\A r \in Requests :
          req[r].pc \in {"awaiting", "done"} /\ req[r].src # 0 =>
            exec[req[r].src].user = req[r].user)
  /\ [][\A r \in Requests :
          req[r].pc = "lookup" /\ req'[r].pc = "awaiting"
            /\ processing[req[r].user] = 0 =>
              req'[r].src = r /\ exec'[r].pc = "launch"]_vars
  /\ [][\A a \in Requests, b \in Requests :
          a # b /\ exec[a].pc # "none" /\ exec'[b] # exec[b]
            /\ exec'[b].user # exec[a].user =>
              /\ exec'[a] = exec[a]
              /\ processing'[exec[a].user] = processing[exec[a].user]
              /\ waiting'[exec[a].user] = waiting[exec[a].user]
              /\ DocsOf(docs', exec[a].user) = DocsOf(docs, exec[a].user)]_vars

\* Every username has an execution in flight, one of them has just failed
\* and the other is still scraping.
C4_Witness ==
  \E a \in Requests, b \in Requests :
    /\ \A u \in Users : InFlightFor(u) # {}
    /\ exec[a].user # exec[b].user
    /\ Running(a) /\ exec[a].pc = "poll" /\ processing[exec[a].user] = a
    /\ exec[b].pc = "settled" /\ exec[b].inner.kind = "error"

\* C5: a request whose lookup found a recent completed snapshot is answered
\* from that snapshot, with the cached flag, and neither starts nor joins an
\* execution.
C5_ServedFromCache ==
  \A r \in Requests :
    req[r].pc \in {"awaiting", "done"} /\ req[r].hit # NoDoc =>
      /\ req[r].pc = "done"
      /\ req[r].resp.kind = "cached"
      /\ req[r].resp.runId = req[r].hit.runId
      /\ req[r].resp.snapshotId = req[r].hit.id
      /\ req[r].resp.cards = req[r].hit.cards
      /\ Len(req[r].resp.steps) = Len(req[r].hit.steps)
      /\ req[r].src = 0
      /\ exec[r].pc = "none"

\* A request was answered from the snapshot another request's scrape stored.
C5_Witness ==
  \E r \in Requests, e \in Requests :
    /\ req[r].pc = "done" /\ req[r].resp.kind = "cached"
    /\ exec[e].pc = "final" /\ exec[e].inner.kind = "ok"
    /\ req[r].resp.runId = exec[e].runId
    /\ req[r].resp.cards = exec[e].inner.cards

\* C6: what the cached branch builds from the stored snapshot of a scrape
\* has the run id, snapshot id, steps and cards of what the scrape returned.
C6_CachedEqualsReturned ==
  \A e \in Requests :
    exec[e].pc = "final" /\ exec[e].inner.kind = "ok" =>
      LET recentSnapshot ==
            getRecentSnapshot(docs, exec[e].user, CacheMaxAgeMinutes, TRUE, now)
      IN  recentSnapshot # NoDoc /\ recentSnapshot.runId = exec[e].runId =>
            /\ CachedResponse(recentSnapshot).runId = exec[e].inner.runId
            /\ CachedResponse(recentSnapshot).snapshotId = exec[e].inner.snapshotId
            /\ CachedResponse(recentSnapshot).steps = exec[e].inner.steps
            /\ CachedResponse(recentSnapshot).cards = exec[e].inner.cards

\* C7: a snapshot older than the TTL is not found by any read: neither a
\* step of it nor the recent-snapshot lookup returns it.
C7_ExpiredNotFound ==
  \A d \in docs :
    Expired(d, now) =>
      /\ \A i \in 1..Len(d.steps) :
           getSnapshotStep(docs, d.id, d.steps[i].name, TRUE) = NoHtml
      /\ getRecentSnapshot(docs, d.user, CacheMaxAgeMinutes, TRUE, now) # d

\* C8: a request that arrives after a scrape of its username completed, and
\* less than 60 minutes after, finds the snapshot of that scrape.
C8_CachedForAnHour ==
  \A r \in Requests, e \in Requests :
    /\ exec[e].pc = "final" /\ exec[e].inner.kind = "ok"
    /\ exec[e].inner.snapshotId # 0
    /\ req[r].pc # "idle" /\ req[r].user = exec[e].user /\ req[r].dbOk
    /\ exec[e].endedAt < req[r].at
    /\ req[r].at - exec[e].endedAt < CacheMaxAgeMinutes * 60
    => req[r].hit # NoDoc

\* The completed snapshots of a username created at or after the cutoff.
RecentCompleted(u, maxAgeMinutes) ==
  {x \in docs : /\ x.user = u
                /\ x.status = "completed"
                /\ now - x.createdAt <= maxAgeMinutes * 60}

MaxAges == {10, CacheMaxAgeMinutes}

LatestOf(r, cand) ==
  /\ r \in cand
  /\ \A y \in cand : \/ y.createdAt < r.createdAt
                     \/ y.createdAt = r.createdAt /\ y.id <= r.id

\* C9 as stated: getRecentSnapshot returns the completed snapshot of the
\* username created last within the age limit, and none only if there is
\* no such snapshot.
C9_LatestOrNoneAlways ==
  \A u \in Users, m \in MaxAges, dbOk \in BOOLEAN :
    LET r == getRecentSnapshot(docs, u, m, dbOk, now)
        cand == RecentCompleted(u, m)
    IN  IF cand = {} THEN r = NoDoc ELSE LatestOf(r, cand)

\* C9: with the database connected, getRecentSnapshot returns the completed
\* snapshot of the username created last within the age limit, and none if
\* there is no such snapshot; without a connection it returns none.
C9_LatestOrNone ==
  \A u \in Users, m \in MaxAges :
    LET r == getRecentSnapshot(docs, u, m, TRUE, now)
        cand == RecentCompleted(u, m)
    IN  /\ IF cand = {} THEN r = NoDoc ELSE LatestOf(r, cand)
        /\ getRecentSnapshot(docs, u, m, FALSE, now) = NoDoc

\* Two completed snapshots of one username are within the age limit and the
\* later one is returned; an older limit excludes a snapshot another admits.
C9_Witness ==
  \E x \in docs, y \in docs :
    /\ x.user = y.user /\ x.id < y.id
    /\ x.status = "completed" /\ y.status = "completed"
    /\ getRecentSnapshot(docs, x.user, CacheMaxAgeMinutes, TRUE, now) = y
    /\ getRecentSnapshot(docs, x.user, 10, TRUE, now) = NoDoc

\* C10: the snapshot of a scrape that ended in an error has status failed.
C10_FailedMarked ==
  \A e \in Requests :
    exec[e].pc \in {"settled", "notified", "final"}
      /\ exec[e].inner.kind = "error" =>
        \A d \in Match(docs, exec[e].user, exec[e].runId) : d.status = "failed"

\* ------------------------------------------------------------- the store
\* The document with a given id in a collection, NoDoc without one.
ById(d, id) ==
  IF \E x \in d : x.id = id THEN CHOOSE x \in d : x.id = id ELSE NoDoc

IsPrefix(p, q) ==
  /\ Len(p) <= Len(q)
  /\ \A i \in 1..Len(p) : p[i] = q[i]

\* A step a call may be asked to store, and the moments it may be called at.
ProbeStep == [name |-> "probe", html |-> 99]

ProbeTimes == {now, now + 1, now + Tick}

\* C11: the collection holds one document per (username, runId).  A
\* saveSnapshotStep that succeeds creates it when there is none, in status
\* processing, created at the time of the call and holding that one step;
\* when there is one it appends the step to it and returns its id.  All the
\* steps an execution captured came back with one and the same id, the id
\* of the document of its run.
C11_CreateOrAppend ==
  /\ \A x \in docs, y \in docs :
       x.user = y.user /\ x.runId = y.runId => x = y
  /\ \A u \in Users, runId \in 1..nextRunId :
       LET m == Match(docs, u, runId)
           r == saveSnapshotStep(Store(docs, nextId), u, runId,
                                 ProbeStep.name, ProbeStep.html, "ok", now)
           made == ById(r.st.docs, r.snapshotId)
       IN  /\ r.snapshotId # 0
           /\ Cardinality(Match(r.st.docs, u, runId)) = 1
           /\ made \in Match(r.st.docs, u, runId)
           /\ IF m = {}
              THEN /\ \A x \in docs : x.id # r.snapshotId
                   /\ made.status = "processing"
                   /\ made.createdAt = now
                   /\ made.steps = <<ProbeStep>>
                   /\ r.st.docs = docs \cup {made}
              ELSE \E d \in m :
                     /\ r.snapshotId = d.id
                     /\ made = [d EXCEPT !.steps = Append(d.steps, ProbeStep)]
                     /\ r.st.docs = (docs \ {d}) \cup {made}
  /\ \A e \in Requests :
       /\ \A i \in 1..Len(exec[e].steps) :
            exec[e].steps[i].htmlPath.snapshotId = exec[e].snapshotId
       /\ exec[e].snapshotId # 0 =>
            \A d \in Match(docs, exec[e].user, exec[e].runId) :
              d.id = exec[e].snapshotId

\* Two runs have each stored several steps in a document of their own.
C11_Witness ==
  \E a \in Requests, b \in Requests :
    /\ a # b /\ Running(a) /\ Running(b)
    /\ Len(exec[a].steps) >= 3 /\ Len(exec[b].steps) >= 2
    /\ Cardinality(docs) = 2
    /\ Len(ById(docs, exec[a].snapshotId).steps) = Len(exec[a].steps)
    /\ Len(ById(docs, exec[b].snapshotId).steps) = Len(exec[b].steps)

\* C12: the steps of a document only grow at the end.  No step of the
\* program removes, reorders or changes a step a document holds; the steps
\* are in the order they were captured; saveSnapshotStep adds exactly one
\* step at the end of the list of its run and saveSnapshotResult leaves
\* the list as it is.
C12_AppendOnly ==
  /\ [][\A d \in docs : ById(docs', d.id) # NoDoc =>
          /\ IsPrefix(d.steps, ById(docs', d.id).steps)
          /\ Len(ById(docs', d.id).steps) <= Len(d.steps) + 1]_vars
  /\ [](\A d \in docs :
          /\ \A i \in 1..Len(d.steps), j \in 1..Len(d.steps) :
               i < j => d.steps[i].html < d.steps[j].html
          /\ \A dbr \in {"ok", "lost"} :
               LET r == saveSnapshotStep(Store(docs, nextId), d.user, d.runId,
                                         ProbeStep.name, ProbeStep.html, dbr, now)
               IN  /\ ById(r.st.docs, d.id).steps = Append(d.steps, ProbeStep)
                   /\ \A x \in docs \ {d} : x \in r.st.docs
          /\ \A dbOk \in BOOLEAN :
               LET st == saveSnapshotResult(Store(docs, nextId), d.user,
                                            d.runId, <<>>, dbOk, now)
               IN  /\ ById(st.docs, d.id).steps = d.steps
                   /\ \A x \in docs \ {d} : x \in st.docs)

\* A document grew to the seven steps of a full run, was completed, and was
\* read by a later request, which answered with its seven steps.
C12_Witness ==
  \E d \in docs, r \in Requests :
    /\ d.status = "completed" /\ Len(d.steps) = 7
    /\ d.steps[1].name = "landing" /\ d.steps[7].name = "full-report"
    /\ req[r].pc = "done" /\ req[r].hit = d /\ Len(req[r].resp.steps) = 7

\* C13: createdAt is written when the document is created and by nothing
\* else: no step of the program changes the createdAt of a document, and
\* neither saveSnapshotStep nor saveSnapshotResult, called at any later
\* time, changes it, so the time at which the TTL index deletes the
\* document stays the same.
C13_CreatedAtFixed ==
  /\ [][\A d \in docs : ById(docs', d.id) # NoDoc =>
          ById(docs', d.id).createdAt = d.createdAt]_vars
  /\ [](\A d \in docs, t \in ProbeTimes :
          /\ \A dbr \in DbResults :
               LET r == saveSnapshotStep(Store(docs, nextId), d.user, d.runId,
                                         ProbeStep.name, ProbeStep.html, dbr, t)
               IN  /\ ById(r.st.docs, d.id).createdAt = d.createdAt
                   /\ \A u \in {t, t + Tick} :
                        Expired(ById(r.st.docs, d.id), u) <=> Expired(d, u)
          /\ \A dbOk \in BOOLEAN :
               LET st == saveSnapshotResult(Store(docs, nextId), d.user,
                                            d.runId, <<>>, dbOk, t)
               IN  ById(st.docs, d.id).createdAt = d.createdAt)

\* A document extended by several steps, completed and read from the cache
\* at a later time still has the createdAt of its first step.
C13_Witness ==
  \E d \in docs, r \in Requests :
    /\ d.status = "completed" /\ Len(d.steps) >= 6
    /\ d.createdAt < now
    /\ req[r].pc = "done" /\ req[r].hit = d /\ req[r].at > d.createdAt

\* ------------------------------------------------------------ the stages
\* The stages of scrape() in their order, by the place of scrape() in them.
StageOrder ==
  <<"goto", "reveal", "username", "continue", "analyzing", "profile",
    "confirm", "processing", "poll", "results", "report">>

StageRank(pc) ==
  IF \E i \in 1..Len(StageOrder) : StageOrder[i] = pc
  THEN CHOOSE i \in 1..Len(StageOrder) : StageOrder[i] = pc
  ELSE IF pc \in {"none", "launch"} THEN 0 ELSE Len(StageOrder) + 1

\* The stage a step name is captured in.
StepStage(name) ==
  CASE name = "landing" -> "goto"
    [] name = "username-entry" -> "username"
    [] name = "analyzing" -> "analyzing"
    [] name = "profile-confirm" -> "profile"
    [] name = "profile-confirm-error" -> "confirm"
    [] name = "processing" -> "processing"
    [] name = "results" -> "results"
    [] name = "full-report" -> "report"
    [] OTHER -> "none"

\* The stages that call captureStep when they are passed without an error.
CaptureStages ==
  {"goto", "username", "analyzing", "profile", "processing", "results",
   "report"}

InStageOrder(steps) ==
  \A i \in 1..Len(steps), j \in 1..Len(steps) :
    i < j => StageRank(StepStage(steps[i].name)) < StageRank(StepStage(steps[j].name))

StepNamesOf(steps) == {steps[i].name : i \in 1..Len(steps)}

\* C14: a capture for which saveSnapshotStep reported failure has stored
\* nothing: a step that is missing from the steps a scrape returned is not
\* in the snapshot of that run, and getSnapshotStep does not find it.
C14_FailedCaptureStoresNothing ==
  \A e \in Requests :
    exec[e].inner.kind = "ok" =>
      \A d \in Match(docs, exec[e].user, exec[e].runId), n \in StepNames :
        n \notin StepNamesOf(exec[e].inner.steps) =>
          /\ n \notin StepNamesOf(d.steps)
          /\ getSnapshotStep(docs, d.id, n, TRUE) = NoHtml

\* C15: the stages of a run are passed one after the other in the fixed
\* order: each step of scrape() leads from a stage to the next one or to
\* the end of the run; when a stage is reached every capturing stage before
\* it has called captureStep or was skipped; the steps returned and the
\* steps stored are in the order of the stages.
C15_StagesInOrder ==
  /\ [][\A e \in Requests :
          StageRank(exec[e].pc) \in 1..Len(StageOrder)
            /\ exec'[e].pc # exec[e].pc =>
            \/ StageRank(exec'[e].pc) = StageRank(exec[e].pc) + 1
            \/ exec'[e].pc = "settled" /\ exec'[e].inner.kind = "error"]_vars
  /\ [](\A e \in Requests :
          /\ Running(e) /\ exec[e].pc # "launch" =>
               exec[e].stepIndex =
                 Cardinality({st \in CaptureStages \ exec[e].skipped :
                                StageRank(st) < StageRank(exec[e].pc)})
          /\ InStageOrder(exec[e].steps)
          /\ \A d \in Match(docs, exec[e].user, exec[e].runId) :
               InStageOrder(d.steps))

\* A run passed every stage and returned the seven steps of a full run.
C15_Witness ==
  \E e \in Requests :
    /\ exec[e].pc = "final" /\ exec[e].inner.kind = "ok"
    /\ exec[e].skipped = {}
    /\ Len(exec[e].inner.steps) = 7
    /\ \E d \in Match(docs, exec[e].user, exec[e].runId) : Len(d.steps) = 7

\* C16: the error of a run that failed for a missing username input, a
\* missing confirmation button or cards that never showed lists the
\* elements found on the page.
C16_HardFailureListsElements ==
  \A e \in Requests :
    exec[e].inner.kind = "error"
      /\ exec[e].failedAt \in {"username", "confirm", "poll"} =>
        exec[e].inner.available.listed

\* The stages whose wait gives up with a warning.
SoftStages == {"analyzing", "processing", "report"}

Ended(e) == exec[e].pc \in {"settled", "notified", "final"}

\* C17: the analyzing, processing and full-report stages never end a run:
\* each step out of one of them leads to the next stage without an error,
\* and when the stage was skipped nothing was captured or stored for it.  A
\* skipped stage has no step in the steps of the run or in its snapshot.
C17_SoftStagesSkip ==
  /\ [][\A e \in Requests :
          exec[e].pc \in SoftStages /\ exec'[e] # exec[e] =>
            /\ exec'[e].inner.kind = "none"
            /\ StageRank(exec'[e].pc) = StageRank(exec[e].pc) + 1
            /\ exec[e].pc \in exec'[e].skipped =>
                 /\ exec'[e].steps = exec[e].steps
                 /\ exec'[e].stepIndex = exec[e].stepIndex
                 /\ docs' = docs]_vars
  /\ [](\A e \in Requests :
          /\ exec[e].skipped \subseteq SoftStages
          /\ \A st \in exec[e].skipped :
               /\ \A n \in StepNamesOf(exec[e].steps) : StepStage(n) # st
               /\ \A d \in Match(docs, exec[e].user, exec[e].runId) :
                    \A n \in StepNamesOf(d.steps) : StepStage(n) # st)

\* A run skipped all three stages and returned its cards and the four
\* other steps.
C17_Witness ==
  \E e \in Requests :
    /\ exec[e].pc = "final" /\ exec[e].inner.kind = "ok"
    /\ exec[e].skipped = SoftStages
    /\ exec[e].inner.cards # <<>>
    /\ StepNamesOf(exec[e].inner.steps) =
         {"landing", "username-entry", "profile-confirm", "results"}

FatalStages ==
  {"launch", "goto", "reveal", "username", "continue", "confirm", "poll",
   "results", "finish"}

FatalErrors ==
  {"launch", "goto", "Could not find Reveal Stalkers button",
   "Could not find username input", "Could not find Continue button",
   "Could not find profile confirmation button",
   "Cards did not appear within timeout period", "page.evaluate",
   "browser.close"}

C20_PollTerminates ==
  /\ \A e \in Requests : (exec[e].pc = "poll") ~> (exec[e].pc # "poll")
  /\ [][\A e \in Requests, page \in PollPages, late \in 0..MaxLateTicks :
          PollTick(e, page, late) =>
            IF ~page.throws
                 /\ \E card \in page.cards : card.width > 0 /\ card.height > 0
            THEN /\ exec'[e].pc = "results"
                 /\ exec'[e].elapsed = exec[e].elapsed
                 /\ exec'[e].inner.kind = "none"
            ELSE /\ exec'[e].pc = "poll"
                 /\ exec'[e].inner.kind = "none"
                 /\ exec'[e].elapsed >= exec[e].elapsed + PollInterval]_vars
  /\ [][\A e \in Requests :
          exec[e].pc = "poll" /\ exec'[e].pc = "results" =>
            \E page \in PollPages, late \in 0..MaxLateTicks :
              /\ PollTick(e, page, late)
              /\ ~page.throws
              /\ \E card \in page.cards : card.width > 0 /\ card.height > 0]_vars
  /\ [](\A e \in Requests :
          exec[e].failedAt = "poll" =>
            /\ exec[e].elapsed >= MaxWaitTime
            /\ exec[e].inner = Failure("Cards did not appear within timeout period")
            /\ "results" \notin StepNamesOf(exec[e].steps)
            /\ \A d \in Match(docs, exec[e].user, exec[e].runId) :
                 "results" \notin StepNamesOf(d.steps))

\* One run left the loop after some iterations that found nothing and
\* returned its cards.
C20_Witness ==
  \E e \in Requests :
    /\ exec[e].pc = "final" /\ exec[e].inner.kind = "ok"
    /\ exec[e].elapsed >= 10 * PollInterval
    /\ exec[e].elapsed < MaxWaitTime
    /\ "results" \in StepNamesOf(exec[e].inner.steps)

\* The requests whose handler called enqueue and holds the promise of
\* execution e.
JoinedTo(e) == {q \in Requests : req[q].src = e}

\* The run of execution e has come to its return statement.
Succeeded(e) ==
  \/ exec[e].pc = "return"
  \/ exec[e].pc \in {"settled", "notified", "final"} /\ exec[e].inner.kind = "ok"

\* C21: an SSE client that goes away while its run is in flight changes
\* nothing of the run or of the queue; the run goes on until its promise
\* has settled, every other caller that holds the promise is answered with
\* its outcome, and a run that came to its return has its document marked
\* completed with the cards.
C21_DisconnectKeepsRun ==
  /\ [][\A r \in Requests :
         (req[r].pc = "awaiting" /\ ~req[r].closed /\ req'[r].closed)
           => UNCHANGED <<exec, docs, processing, waiting>>]_vars
  /\ \A r \in Requests :
       (req[r].closed /\ InFlight(req[r].src))
         ~> (/\ req[r].closed
             /\ exec[req[r].src].pc = "final"
             /\ \A q \in JoinedTo(req[r].src) :
                  ~req[q].closed =>
                    /\ req[q].pc = "done"
                    /\ req[q].resp = exec[req[r].src].promise)
  /\ [](\A r \in Requests :
          (req[r].closed /\ Succeeded(req[r].src)) =>
            \E d \in docs :
              /\ d.runId = exec[req[r].src].runId
              /\ d.status = "completed"
              /\ d.cards = exec[req[r].src].data)

\* The starter of a run went away before the last snapshot event, the run
\* succeeded, and a caller that joined it was answered with its result.
C21_Witness ==
  \E r \in Requests, q \in Requests :
    /\ q # r
    /\ req[r].closed /\ req[r].src = r /\ req[q].src = r
    /\ Len(req[r].events) < Len(exec[r].steps)
    /\ exec[r].pc = "final"
    /\ req[q].pc = "done" /\ req[q].resp.kind = "ok"
    /\ req[q].resp = exec[r].promise
    /\ \E d \in docs : d.runId = exec[r].runId /\ d.status = "completed"
\* The events of a stream that carry a snapshot entry.
SnapshotEvents(events) ==
  SelectSeq(events, LAMBDA ev : ev.event = "snapshot")

\* C22: a scrape given a callback calls it once for each entry it pushes on
\* its steps, with that entry and in the order of the pushes; a call is made
\* in the stage that captured the entry, when the step is in the stored
\* document, and while the scrape runs; on the stream the snapshot events
\* are these entries and come before the final event.
C22_CallbackPerCapture ==
  /\ [](\A e \in Requests : exec[e].onStep => exec[e].calls = exec[e].steps)
  /\ [][\A e \in Requests :
         exec'[e].calls # exec[e].calls =>
           LET entry == exec'[e].calls[Len(exec'[e].calls)]
           IN  /\ exec'[e].calls = Append(exec[e].calls, entry)
               /\ StepStage(entry.name) = exec[e].pc
               /\ Running(e)
               /\ req[e].pc = "awaiting" /\ req'[e].resp = NoOutcome
               /\ \E d \in docs' :
                    /\ d.id = entry.htmlPath.snapshotId
                    /\ d.runId = exec[e].runId
                    /\ entry.name \in StepNamesOf(d.steps)]_vars
  /\ [](\A r \in Requests :
          LET events == req[r].events
          IN  /\ \A i \in 1..Len(events) :
                   i < Len(events) => events[i].event = "snapshot"
              /\ (req[r].wantsSSE /\ req[r].src = r /\ ~req[r].closed) =>
                   [i \in 1..Len(SnapshotEvents(events)) |->
                      SnapshotEvents(events)[i].data] = exec[r].calls)

\* An SSE request is answered: one capture of its scrape stored nothing and
\* called nothing, three others called the callback, and the final event
\* follows the snapshot events.
C22_Witness ==
  \E r \in Requests :
    /\ req[r].wantsSSE /\ req[r].pc = "done" /\ ~req[r].closed
    /\ exec[r].onStep
    /\ Len(exec[r].calls) >= 3
    /\ exec[r].stepIndex > Len(exec[r].steps)
    /\ Len(req[r].events) = Len(exec[r].calls) + 1
    /\ req[r].events[Len(req[r].events)].event \in {"done", "error"}
\* The indices of a sequence, and the least of a set of them.
Indices(seq) == 1..Len(seq)

Range(seq) == {seq[i] : i \in 1..Len(seq)}

\* C23: the avatar of the full report is the image of the first rounded-full
\* div whose background-image embeds more than MinImageLength characters of
\* base64 image data; without one, of the first element with such a
\* background-image; without that, the first embedded image of the markup
\* longer than LargeImageLength; and null, not an error, when there is
\* none.  A large image in no style is found by the third search.
C23_FirstMethodWins ==
  (parse.fn = "parseFullReport" /\ parse.input.readable) =>
    LET elements == parse.input.elements
        avatar == parse.out.avatar
        hinted == {i \in Indices(elements) :
                     /\ elements[i].roundedFull /\ elements[i].bg
                     /\ elements[i].image # Absent
                     /\ elements[i].image.base64
                     /\ elements[i].image.length > MinImageLength}
        styled == {i \in Indices(elements) :
                     /\ elements[i].bg
                     /\ elements[i].image # Absent
                     /\ elements[i].image.base64
                     /\ elements[i].image.length > MinImageLength}
        large == {i \in Indices(elements) :
                    /\ elements[i].image # Absent
                    /\ elements[i].image.base64
                    /\ elements[i].image.length > LargeImageLength}
        Least(S) == CHOOSE i \in S : \A j \in S : i <= j
    IN  /\ parse.out # Null
        /\ parse.out # [threw |-> TRUE]
        /\ hinted # {} => avatar = elements[Least(hinted)].image
        /\ (hinted = {} /\ styled # {}) => avatar = elements[Least(styled)].image
        /\ (hinted = {} /\ styled = {} /\ large # {}) =>
             avatar = elements[Least(large)].image
        /\ (hinted = {} /\ styled = {} /\ large = {}) => avatar = Null
        /\ ((\A i \in Indices(elements) :
               ~elements[i].roundedFull /\ ~elements[i].bg) /\ large # {}) =>
             avatar = elements[Least(large)].image

\* A page with a small image in a background-image style of a plain element
\* and an image of 10000 characters in no style: the large one is returned.
C23_Witness ==
  /\ parse.fn = "parseFullReport"
  /\ Len(parse.input.elements) = 2
  /\ Method1(parse.input.elements) = {}
  /\ Method2(parse.input.elements) = {}
  /\ parse.input.elements[1].bg /\ parse.input.elements[1].image # Absent
  /\ ~parse.input.elements[2].bg /\ ~parse.input.elements[2].roundedFull
  /\ parse.out.avatar = [base64 |-> TRUE, length |-> 10000]

\* C24: the username of the profile record comes from the shortest of the
\* texts that start with "@"; when that text is "@" and word characters
\* ending in a word of the stoplist, the username is the text without that
\* word ("@john_doeHello" gives "@john_doe"); the username starts with "@",
\* or is empty when no text starts with "@".
C24_ShortestHandleTrimmed ==
  (parse.fn = "parseProfileSnapshot" /\ parse.input.readable) =>
    LET nodes == parse.input.nodes
        username == parse.out.username
        candidates == {i \in Indices(nodes) : Len(nodes[i]) > 0 /\ nodes[i][1] = "@"}
        shortest == {i \in candidates :
                       \A j \in candidates : Len(nodes[i]) <= Len(nodes[j])}
        RunOn(text) == {w \in Stoplist :
                          /\ Len(w) < Len(text)
                          /\ SubSeq(Lowered(text), Len(text) - Len(w) + 1,
                                    Len(text)) = w}
    IN  /\ candidates = {} => username = <<>>
        /\ candidates # {} =>
             /\ Len(username) > 0 /\ username[1] = "@"
             /\ \E i \in shortest :
                  /\ IsPrefix(username, nodes[i])
                  /\ (Len(nodes[i]) > 1 /\
                      \A k \in 2..Len(nodes[i]) : nodes[i][k] \in WordChars) =>
                       IF RunOn(nodes[i]) = {} THEN username = nodes[i]
                       ELSE \E w \in RunOn(nodes[i]) :
                              Lowered(nodes[i]) = Lowered(username) \o w
        /\ nodes = << <<"@", "j", "o", "h", "n", "_", "d", "o", "e",
                        "H", "e", "l", "l", "o">> >> =>
             username = <<"@", "j", "o", "h", "n", "_", "d", "o", "e">>

\* Two texts start with "@", the longer one comes first in the document, the
\* shorter one is "@john_doeHello": the username is "@john_doe".
C24_Witness ==
  /\ parse.fn = "parseProfileSnapshot"
  /\ Len(parse.input.nodes) = 2
  /\ Len(parse.input.nodes[1]) > Len(parse.input.nodes[2])
  /\ parse.input.nodes[1][1] = "@"
  /\ parse.input.nodes[2] = <<"@", "j", "o", "h", "n", "_", "d", "o", "e",
                              "H", "e", "l", "l", "o">>
  /\ parse.out.username = <<"@", "j", "o", "h", "n", "_", "d", "o", "e">>

C26_DirectTextFirst ==
  (parse.fn = "parseProcessingSnapshot" /\ parse.input.readable) =>
    LET items == parse.input.items
        paragraphs == parse.input.paragraphs
        bullets == parse.out.bullets
        Passes(text) == /\ text.len > MinTextLength /\ text.len < MaxTextLength
                        /\ text.kw
        TextOf(li) == IF li.direct # NoText THEN li.direct
                      ELSE Joined(li.direct, li.inner)
        qualifying == {i \in Indices(items) : Passes(TextOf(items[i]))}
    IN  /\ \A i \in qualifying : TextOf(items[i]) \in Range(bullets)
        /\ qualifying # {} =>
             Range(bullets) = {TextOf(items[i]) : i \in qualifying}
        /\ qualifying = {} =>
             Range(bullets) = {text \in Range(paragraphs) : Passes(text)}

C29_ConnectOrNull ==
  /\ [](\A c \in Calls :
          /\ conn.call[c].pc \in {"idle", "connecting", "pinging", "indexing",
                                  "closing", "done"}
          /\ conn.call[c].ret \in 0..MaxCalls
          /\ conn.db # 0 => conn.dbClient # 0)
  /\ [][\A c \in Calls :
         (conn.call[c].pc # "done" /\ conn'.call[c].pc = "done") =>
           /\ conn'.call[c].ret = 0 =>
                /\ conn'.db = 0
                /\ \/ conn'.dbClient = 0
                   \/ \E b \in Calls \ {c} :
                        /\ conn'.call[b].client = conn'.dbClient
                        /\ conn'.call[b].pc \in {"connecting", "pinging",
                                                 "indexing", "closing"}
           /\ conn'.call[c].ret # 0 =>
                conn'.db = conn'.call[c].ret /\ conn'.dbClient # 0
           /\ (conn.call[c].pc = "idle" /\ conn.dbClient # 0 /\ conn.db # 0) =>
                /\ conn'.call[c].ret = conn.db
                /\ conn'.nextClient = conn.nextClient
                /\ conn'.dbClient = conn.dbClient /\ conn'.db = conn.db]_vars
  /\ [][\A c \in Calls :
         (conn.call[c].pc = "idle" /\ conn'.call[c].pc # "idle"
          /\ (conn.dbClient = 0 \/ conn.db = 0)) =>
           /\ conn'.call[c].pc = "connecting"
           /\ conn'.nextClient = conn.nextClient + 1
           /\ conn'.dbClient = conn.nextClient]_vars

\* The call at server start returned null; the second call made a new
\* client and returned its handle; the third call returned the same handle
\* and made no client.
C29_Witness ==
  /\ conn.call[1].pc = "done" /\ conn.call[1].ret = 0
  /\ conn.call[2].pc = "done" /\ conn.call[2].client = 2
  /\ conn.call[2].ret = 2
  /\ conn.call[3].pc = "done" /\ conn.call[3].client = 0
  /\ conn.call[3].ret = 2
  /\ conn.nextClient = 3
C31_NoSecondRun ==
  [][\A r \in Requests :
       (/\ req[r].pc = "lookup" /\ req[r].hit = NoDoc /\ req[r].busy # 0
        /\ exec[r].pc = "none" /\ exec'[r].pc = "launch")
         => exec[req[r].busy].inner.kind # "ok"]_vars

\* C32: a username that has no entry in processing has no entry in waiting,
\* so getStatus reports no waiters for a username that is not being
\* processed.
C32_NoOrphanWaiters ==
  \A u \in Users : processing[u] = 0 => waiting[u] = -1
\* C33: whenever the promise of scrape() has settled, with a result or with
\* an error, the browser the run launched has been closed.
C33_BrowserReleased ==
  \A e \in Requests :
    exec[e].pc \in {"settled", "notified", "final"} => exec[e].browser # "open"
\* The step names of a run that passes every stage, in their order.
SuccessSteps ==
  <<"landing", "username-entry", "analyzing", "profile-confirm", "processing",
    "results", "full-report">>

Occurrences(steps, name) == {i \in 1..Len(steps) : steps[i].name = name}

\* steps is SuccessSteps with some of its entries left out
SubsequenceOfSuccess(steps) ==
  /\ \A i \in 1..Len(steps) : \E k \in 1..Len(SuccessSteps) :
       SuccessSteps[k] = steps[i].name
  /\ \A i \in 1..Len(steps), j \in 1..Len(steps) :
       i < j => \E k \in 1..Len(SuccessSteps), l \in 1..Len(SuccessSteps) :
                  k < l /\ SuccessSteps[k] = steps[i].name
                        /\ SuccessSteps[l] = steps[j].name

\* C34: in the steps of a run and in its document no step name occurs
\* twice; the steps of a result are the seven step names in their order
\* with some left out; a run that captured "profile-confirm-error" ends with
\* an error.
C34_StageNamesOnce ==
  \A e \in Requests :
    /\ \A n \in StepNames :
         /\ Cardinality(Occurrences(exec[e].steps, n)) <= 1
         /\ \A d \in Match(docs, exec[e].user, exec[e].runId) :
              Cardinality(Occurrences(d.steps, n)) <= 1
    /\ exec[e].inner.kind = "ok" => SubsequenceOfSuccess(exec[e].inner.steps)
    /\ (exec[e].pc # "none" /\
        \/ Occurrences(exec[e].steps, "profile-confirm-error") # {}
        \/ \E d \in Match(docs, exec[e].user, exec[e].runId) :
             Occurrences(d.steps, "profile-confirm-error") # {})
         => exec[e].inner.kind = "error"

\* A run returned its result without the analyzing step, and its document
\* holds "profile-confirm" once.
C34_Witness ==
  \E e \in Requests :
    /\ exec[e].pc = "final" /\ exec[e].inner.kind = "ok"
    /\ "analyzing" \in exec[e].skipped
    /\ Len(exec[e].inner.steps) = 6
    /\ \E d \in Match(docs, exec[e].user, exec[e].runId) :
         Cardinality(Occurrences(d.steps, "profile-confirm")) = 1
\* The html page.content() returned in the captureStep call of a step name:
\* the calls of a run are numbered, and a stage that was skipped made none.
CapturedAt(e, name) ==
  Cardinality({st \in CaptureStages \ exec[e].skipped :
                 StageRank(st) <= StageRank(StepStage(name))})

\* C35: every step of a result carries the path of its own name under the
\* snapshotId of the result, and until the snapshot is due for deletion
\* getSnapshotStep(snapshotId, name) returns for each step of the result the
\* html captured in the captureStep call of that name.
C35_PathsServeCaptured ==
  \A e \in Requests :
    exec[e].inner.kind = "ok" =>
      \A i \in 1..Len(exec[e].inner.steps) :
        LET step == exec[e].inner.steps[i]
        IN  /\ step.htmlPath.snapshotId = exec[e].inner.snapshotId
            /\ step.htmlPath.name = step.name
            /\ now - exec[e].endedAt < ExpireAfterSeconds =>
                 /\ getSnapshotStep(docs, step.htmlPath.snapshotId,
                                    step.htmlPath.name, TRUE)
                      = CapturedAt(e, step.name)
                 /\ CapturedAt(e, step.name) # NoHtml

\* A result lists six steps, the analyzing stage was skipped, and the path
\* of its last step serves the html of the sixth captureStep call.
C35_Witness ==
  \E e \in Requests :
    /\ exec[e].pc = "final" /\ exec[e].inner.kind = "ok"
    /\ "analyzing" \in exec[e].skipped
    /\ Len(exec[e].inner.steps) = 6
    /\ exec[e].inner.steps[6].name = "full-report"
    /\ getSnapshotStep(docs, exec[e].inner.snapshotId, "full-report", TRUE) = 6
\* C36: the callback of a request that joined an execution is never called:
\* no scrape runs for the request, a capture of the execution it joined
\* writes to the response of the request that started it and to no other,
\* and the stream of the joiner carries nothing but the final event (and
\* not even that when its client went away).
C36_JoinerGetsFinalOnly ==
  /\ [](\A r \in Requests :
          req[r].src \notin {0, r} =>
            /\ exec[r].pc = "none" /\ exec[r].calls = <<>>
            /\ SnapshotEvents(req[r].events) = <<>>
            /\ IF req[r].pc = "done" /\ req[r].wantsSSE /\ ~req[r].closed
               THEN req[r].events =
                      <<[event |-> FinalEvent(exec[req[r].src].promise),
                         data |-> exec[req[r].src].promise]>>
               ELSE req[r].events = <<>>)
  /\ [][\A e \in Requests :
         exec'[e].steps # exec[e].steps =>
           \A r \in Requests \ {e} : req'[r].events = req[r].events]_vars

\* An SSE request joined the execution a legacy request had started; the
\* execution captured steps, and the SSE stream carries the final event
\* alone.
C36_Witness ==
  \E r \in Requests :
    /\ req[r].wantsSSE /\ req[r].src \notin {0, r}
    /\ req[r].pc = "done" /\ ~req[r].closed
    /\ Len(exec[req[r].src].steps) >= 3
    /\ Len(req[r].events) = 1 /\ req[r].events[1].event = "done"
\* C37: a callback that throws changes nothing of the run: the entry handed
\* to it is on the steps of the run and stays there, the step that called it
\* leads to the next stage (or to the error of that stage itself), and the
\* result lists every step the callback was called with.
C37_ThrowingCallbackIgnored ==
  /\ [](\A e \in Requests :
          exec[e].throws =>
            /\ exec[e].calls = exec[e].steps
            /\ exec[e].inner.kind = "ok" => exec[e].inner.steps = exec[e].calls
            /\ exec[e].inner.kind = "error" => exec[e].inner.err \in FatalErrors)
  /\ [][\A e \in Requests :
         (exec[e].throws /\ exec'[e].calls # exec[e].calls) =>
           /\ exec'[e].steps =
                Append(exec[e].steps, exec'[e].calls[Len(exec'[e].calls)])
           /\ \/ StageRank(exec'[e].pc) = StageRank(exec[e].pc) + 1
              \/ /\ exec[e].pc \in {"confirm", "results"}
                 /\ exec'[e].inner.err \in
                      {"Could not find profile confirmation button",
                       "page.evaluate"}]_vars

\* A run whose callback threw at each of its seven captures returned its
\* result with the seven steps.
C37_Witness ==
  \E e \in Requests :
    /\ exec[e].throws /\ exec[e].pc = "settled"
    /\ exec[e].inner.kind = "ok"
    /\ Len(exec[e].calls) = 7 /\ Len(exec[e].inner.steps) = 7
\* A call of connectDB that is connecting with a client it made.
Connecting(c) == conn.call[c].pc \in {"connecting", "pinging", "indexing"}

\* C38: calls of connectDB that are connecting at the same time share one
\* client, and the call that fails closes and forgets no client that
\* another call is connecting with.
C38_OneSharedClient ==
  /\ [](\A b \in Calls, c \in Calls :
          Connecting(b) /\ Connecting(c) =>
            conn.call[b].client = conn.call[c].client)
  /\ [][\A c \in Calls :
         (conn.call[c].pc = "closing" /\ conn'.call[c].pc = "done") =>
           \A b \in Calls \ {c} :
             Connecting(b) => conn.call[b].client # conn.dbClient]_vars
====
